---- MODULE Spec2Model ----
(***************************************************************************)
(* backport::move_only_function<R(Args...)>                                *)
(* (include/backport/move_only_function.hpp, custom pre-C++23 branch).     *)
(*                                                                         *)
(* Memory is modelled by addresses: every wrapper has its own inline       *)
(* buffer storage.buffer, swap has a stack temp_buffer, and the heap is a  *)
(* row of blocks.  The handle `callable` of a wrapper is an address;       *)
(* is_inline() is the range test of the source.  An object of type         *)
(* inline_callable_impl<F> or heap_callable_impl<F> lives at an address    *)
(* from its construction to its destruction.                               *)
(***************************************************************************)
EXTENDS Integers, Sequences, FiniteSets, TLC

----------------------------------------------------------------------------
(* Bounds of the model *)

\* number of wrapper variables of the client program
NumWrappers == 2
\* cap on allocation_count, the calls of operator new over a run
MaxAllocs == 3
\* cap on call_count, the calls a counting callable has taken
MaxCalls == 2
\* cap on the member functions the callers enter over a run
MaxEntries == 2

----------------------------------------------------------------------------
(* Platform and class constants *)

\* sizeof(void*)
PtrSize == 8
\* alignof(std::max_align_t)
buffer_align == 16
\* static constexpr std::size_t buffer_size = sizeof(void*) * 3
buffer_size == PtrSize * 3
\* nullptr
NULL == 0

Wrappers == 1..NumWrappers
\* the local `move_only_function tmp` of operator=(F&&)
TMP == 0
AllWrappers == {TMP} \cup Wrappers

\* address of the local temp_buffer of swap
temp_buffer == buffer_size
\* address of wrapper w's storage.buffer (storage is the first member)
Buf(w) == (w + 1) * 2 * buffer_size
\* heap blocks handed out by operator new
NumBlocks == NumWrappers + 1
HeapAddr(h) == (NumWrappers + 1 + h) * 2 * buffer_size
HeapAddrs == { HeapAddr(h) : h \in 1..NumBlocks }
BufAddrs == { Buf(w) : w \in AllWrappers }
\* the callers of the member functions: the class has no lock and no atomic,
\* so two of them can be inside member functions of one wrapper at a time
Threads == {1, 2}
\* address of the temp_buffer of a swap made by caller t, on t's own stack
TempBuf(t) == IF t = 1 THEN temp_buffer ELSE HeapAddr(NumBlocks + t)
TempAddrs == { TempBuf(t) : t \in Threads }
ObjAddrs == TempAddrs \cup BufAddrs \cup HeapAddrs

----------------------------------------------------------------------------
(* The callables the client wraps: sizeof, alignof, whether the move       *)
(* constructor is noexcept, and the value operator() returns.              *)

Callables == 1..5
\* callables with state of their own: MutableCallable (a call counter),
\* SelfReferential{42} (a pointer to its own member value), and a call counter
\* too large for the buffer
StatefulCallables == 6..8
\* callables that can themselves be null: a function pointer (the free
\* function add), a null function pointer, a std::function with a target and
\* an empty std::function
NullableCallables == {1, 9, 10, 11}
\* kind: what operator() does: "plain" returns a value computed from the
\* argument, "mutable" returns ++call_count, "self_ref" returns ptr ? *ptr : -1,
\* "null_fp" is a call through a null function pointer (undefined),
\* "empty_function" throws std::bad_function_call
CallableType(c) ==
  CASE c = 1 -> [size |-> 8,   align |-> 8,  nothrow_move |-> TRUE,  ret |-> 42, kind |-> "plain"]
    [] c = 2 -> [size |-> 16,  align |-> 8,  nothrow_move |-> TRUE,  ret |-> 7,  kind |-> "plain"]
    [] c = 3 -> [size |-> 260, align |-> 4,  nothrow_move |-> TRUE,  ret |-> 7,  kind |-> "plain"]
    [] c = 4 -> [size |-> 32,  align |-> 32, nothrow_move |-> TRUE,  ret |-> 42, kind |-> "plain"]
    [] c = 5 -> [size |-> 8,   align |-> 4,  nothrow_move |-> FALSE, ret |-> 42, kind |-> "plain"]
    [] c = 6 -> [size |-> 4,   align |-> 4,  nothrow_move |-> TRUE,  ret |-> 0,  kind |-> "mutable"]
    [] c = 7 -> [size |-> 16,  align |-> 8,  nothrow_move |-> TRUE,  ret |-> 42, kind |-> "self_ref"]
    [] c = 8 -> [size |-> 260, align |-> 4,  nothrow_move |-> TRUE,  ret |-> 0,  kind |-> "mutable"]
    [] c = 9 -> [size |-> 8,   align |-> 8,  nothrow_move |-> TRUE,  ret |-> 0,  kind |-> "null_fp"]
    [] c = 10 -> [size |-> 32, align |-> 8,  nothrow_move |-> TRUE,  ret |-> 7,  kind |-> "plain"]
    [] c = 11 -> [size |-> 32, align |-> 8,  nothrow_move |-> TRUE,  ret |-> 0,  kind |-> "empty_function"]

Max(a, b) == IF a >= b THEN a ELSE b
RoundUp(n, a) == ((n + a - 1) \div a) * a

\* alignof(inline_callable_impl<Callable>): a vtable pointer and the member func
impl_align(T) == Max(PtrSize, T.align)
\* sizeof(inline_callable_impl<Callable>)
impl_size(T) == RoundUp(RoundUp(PtrSize, T.align) + T.size, impl_align(T))

\* Faulty variant of can_use_soo: the is_nothrow_move_constructible_v test is
\* left out.
can_use_soo_ignores_nothrow(T) ==
  /\ impl_size(T) <= buffer_size
  /\ impl_align(T) <= buffer_align

\* Faulty variant of can_use_soo: sizeof < buffer_size instead of <=.
can_use_soo_size_strict(T) ==
  /\ impl_size(T) < buffer_size
  /\ impl_align(T) <= buffer_align
  /\ T.nothrow_move

\* Faulty variant of can_use_soo: sizeof(Callable) is tested instead of
\* sizeof(inline_callable_impl<Callable>).
can_use_soo_bare_size(T) ==
  /\ T.size <= buffer_size
  /\ impl_align(T) <= buffer_align
  /\ T.nothrow_move

can_use_soo(T) ==
  /\ impl_size(T) <= buffer_size
  /\ impl_align(T) <= buffer_align
  /\ T.nothrow_move

----------------------------------------------------------------------------
(* State *)

VARIABLES
  alive,               \* alive[w]: wrapper w is between its constructor and destructor
  callable,            \* callable[w]: the member callable_base* callable
  mem,                 \* mem[a]: the object living at address a
  heap,                \* addresses of the heap blocks currently allocated
  allocation_count,    \* calls of operator new so far
  deallocation_count,  \* calls of operator delete so far
  ub,                  \* undefined behaviour met so far, by kind
  last,                \* the last operation: its arguments, the state before it, its events
  soo,                 \* an instantiation can_use_soo<Callable>(): the type and the value
  thread,              \* thread[t]: the member function caller t is inside, what is left of it, its locals
  interleaved          \* a caller has acted on a wrapper while the other was inside a member function of it

vars == <<alive, callable, mem, heap, allocation_count, deallocation_count, ub, last,
          soo, thread, interleaved>>

\* call_count and ptr are the members of the callable itself: the counter of a
\* MutableCallable, and the pointer of a SelfReferential, which holds the
\* address of the object whose value it points into
NoObj == [impl |-> "none", c |-> 0, moved |-> FALSE, call_count |-> 0, ptr |-> NULL]

\* the arguments of a call of operator(): none for the other member functions
NoInput == [arg |-> 0, void_R |-> FALSE, outcome |-> "none"]

\* a caller that is in no member function
NoThread ==
  [ op |-> "idle", self |-> 0, other |-> 0, rest |-> <<>>, p |-> NULL, entered |-> 0,
    alone |-> FALSE,
    pre |-> [ alive |-> [w \in Wrappers |-> FALSE],
              callable |-> [w \in AllWrappers |-> NULL],
              mem |-> [a \in ObjAddrs |-> NoObj], heap |-> {},
              allocation_count |-> 0, deallocation_count |-> 0 ] ]

\* the part of the state the member functions work on
Cur ==
  [ callable |-> callable, mem |-> mem, heap |-> heap,
    allocation_count |-> allocation_count,
    deallocation_count |-> deallocation_count,
    ub |-> ub, log |-> <<>>, thrown |-> "none", result |-> <<>>, input |-> NoInput ]

Event(e, a, b) == [ev |-> e, a |-> a, b |-> b]
Log(S, e, a, b) == [S EXCEPT !.log = Append(@, Event(e, a, b))]
Fault(S, kind) == [S EXCEPT !.ub = @ \cup {kind}]

HasObj(S, p) == p \in ObjAddrs /\ S.mem[p].impl # "none"

----------------------------------------------------------------------------
(* Steps of the member functions *)

\* callable = p
set_callable(S, w, p) == Log([S EXCEPT !.callable[w] = p], "set", w, p)

\* new (dst) X(...): an object of implementation class impl for callable c
placement_new(S, dst, impl, c) ==
  LET S1 == IF S.mem[dst].impl # "none" THEN Fault(S, "overwrite_live") ELSE S
  IN Log([S1 EXCEPT !.mem[dst] =
            [impl |-> impl, c |-> c, moved |-> FALSE, call_count |-> 0,
             ptr |-> IF CallableType(c).kind = "self_ref" THEN dst ELSE NULL]],
         "ctor", dst, 0)

\* the destructor ~X() of the object at p
run_destructor(S, p) == Log([S EXCEPT !.mem[p] = NoObj], "dtor", p, 0)

\* ::operator new: the first free block
operator_new(S) ==
  LET free == HeapAddrs \ S.heap
      p == CHOOSE x \in free : \A y \in free : x <= y
  IN Log([S EXCEPT !.heap = @ \cup {p}, !.allocation_count = @ + 1], "alloc", p, 0)

\* ::operator delete
operator_delete(S, p) ==
  Log([S EXCEPT !.heap = @ \ {p}, !.deallocation_count = @ + 1], "free", p, 0)

\* Faulty variant of move_to: the object is relocated with memcpy instead of
\* its move constructor, so the members arrive as they were at the source.
move_to_memcpy(S, p, dst) ==
  IF ~HasObj(S, p) THEN Fault(S, "dangling_call")
  ELSE LET S1 == Log(S, "move_to", p, dst)
           S2 == placement_new(S1, dst, S.mem[p].impl, S.mem[p].c)
       IN [S2 EXCEPT !.mem[dst].call_count = S.mem[p].call_count,
                     !.mem[dst].ptr = S.mem[p].ptr,
                     !.mem[p].moved = TRUE]

\* p->move_to(dst), the virtual call: the implementation object is move
\* constructed at dst.  The move constructor of a callable that is not
\* nothrow-move-constructible is taken to throw; every member function that
\* calls move_to is noexcept, so the exception ends in std::terminate.
\* The callable's move constructor carries its members over: the implicit one
\* copies call_count; SelfReferential's points ptr at the new object's own
\* value (as its constructor does) and sets other.ptr to nullptr.
move_to(S, p, dst) ==
  IF ~HasObj(S, p) THEN Fault(S, "dangling_call")
  ELSE LET S1 == Log(S, "move_to", p, dst)
           S2 == placement_new(S1, dst, S.mem[p].impl, S.mem[p].c)
       IN IF ~CallableType(S.mem[p].c).nothrow_move
          THEN [S1 EXCEPT !.thrown = "terminate"]
          ELSE [S2 EXCEPT !.mem[dst].call_count = S.mem[p].call_count,
                          !.mem[p].ptr = NULL,
                          !.mem[p].moved = TRUE]

\* Faulty variant of destroy: heap_callable_impl::destroy runs the destructor
\* in place, as inline_callable_impl::destroy does.
destroy_heap_runs_destructor(S, p) ==
  IF ~HasObj(S, p) THEN Fault(S, "dangling_call")
  ELSE run_destructor(S, p)

\* p->destroy(), the virtual call
destroy(S, p) ==
  IF ~HasObj(S, p) THEN Fault(S, "dangling_call")
  ELSE IF S.mem[p].impl = "inline" THEN run_destructor(S, p)
  ELSE S

\* delete p, for p # nullptr: virtual destructor, then operator delete
delete(S, p) ==
  IF p \notin S.heap \/ ~HasObj(S, p) THEN Fault(S, "bad_delete")
  ELSE operator_delete(run_destructor(S, p), p)

\* Faulty variant of is_inline: the lower bound of the range test is strict
\* (callable > storage.buffer).
is_inline_lower_bound_strict(S, w) ==
  /\ S.callable[w] # NULL
  /\ S.callable[w] > Buf(w)
  /\ S.callable[w] < Buf(w) + buffer_size

is_inline(S, w) ==
  /\ S.callable[w] # NULL
  /\ S.callable[w] >= Buf(w)
  /\ S.callable[w] < Buf(w) + buffer_size

\* Faulty variant of reset: the else branch (delete callable) is missing.
reset_leaks_heap(S, w) ==
  IF S.callable[w] # NULL
  THEN LET S1 == IF is_inline(S, w) THEN destroy(S, S.callable[w]) ELSE S
       IN set_callable(S1, w, NULL)
  ELSE S

\* Faulty variant of reset: callable = nullptr is missing.
reset_keeps_handle(S, w) ==
  IF S.callable[w] # NULL
  THEN IF is_inline(S, w) THEN destroy(S, S.callable[w])
       ELSE delete(S, S.callable[w])
  ELSE S

reset(S, w) ==
  IF S.callable[w] # NULL
  THEN LET S1 == IF is_inline(S, w) THEN destroy(S, S.callable[w])
                 ELSE delete(S, S.callable[w])
       IN set_callable(S1, w, NULL)
  ELSE S

----------------------------------------------------------------------------
(* Member functions of move_only_function<R(Args...)>.  Each takes the     *)
(* state and gives the state after the call.                               *)

\* Faulty variant of move_ctor: the heap branch copies the pointer and leaves
\* other.callable as it was.
move_ctor_heap_source_kept(S, w, other) ==
  IF S.callable[other] # NULL
  THEN IF is_inline(S, other)
       THEN LET S1 == move_to(S, S.callable[other], Buf(w))
                S2 == set_callable(S1, w, Buf(w))
                S3 == destroy(S2, S2.callable[other])
            IN set_callable(S3, other, NULL)
       ELSE set_callable(S, w, S.callable[other])
  ELSE S

\* Faulty variant of move_ctor: the inline branch relocates and destroys but
\* does not set other.callable to nullptr.
move_ctor_inline_source_kept(S, w, other) ==
  IF S.callable[other] # NULL
  THEN IF is_inline(S, other)
       THEN LET S1 == move_to(S, S.callable[other], Buf(w))
                S2 == set_callable(S1, w, Buf(w))
            IN destroy(S2, S2.callable[other])
       ELSE LET S1 == set_callable(S, w, S.callable[other])
            IN set_callable(S1, other, NULL)
  ELSE S

\* Faulty variant of move_ctor: the payload is relocated into this wrapper's
\* buffer whether other holds it inline or on the heap, and other is reset.
move_ctor_always_relocates(S, w, other) ==
  IF S.callable[other] # NULL
  THEN LET S1 == move_to(S, S.callable[other], Buf(w))
           S2 == set_callable(S1, w, Buf(w))
       IN reset(S2, other)
  ELSE S

\* Faulty variant of move_ctor: a heap payload is moved into a block of its
\* own, obtained from operator new, and other's block is deleted.
move_ctor_heap_reallocates(S, w, other) ==
  IF S.callable[other] # NULL
  THEN IF is_inline(S, other)
       THEN LET S1 == move_to(S, S.callable[other], Buf(w))
                S2 == set_callable(S1, w, Buf(w))
                S3 == destroy(S2, S2.callable[other])
            IN set_callable(S3, other, NULL)
       ELSE LET S1 == operator_new(S)
                p == S1.log[Len(S1.log)].a
                S2 == move_to(S1, S1.callable[other], p)
                S3 == set_callable(S2, w, p)
                S4 == delete(S3, S3.callable[other])
            IN set_callable(S4, other, NULL)
  ELSE S

\* move_only_function(move_only_function &&other) noexcept
move_ctor(S, w, other) ==
  IF S.callable[other] # NULL
  THEN IF is_inline(S, other)
       THEN LET S1 == move_to(S, S.callable[other], Buf(w))
                S2 == set_callable(S1, w, Buf(w))
                S3 == destroy(S2, S2.callable[other])
            IN set_callable(S3, other, NULL)
       ELSE LET S1 == set_callable(S, w, S.callable[other])
            IN set_callable(S1, other, NULL)
  ELSE S

\* Faulty variant of construct_from: the heap branch uses new (std::nothrow)
\* and a failed allocation leaves the wrapper empty without an exception.
construct_from_nothrow_new(S, w, c, outcome) ==
  IF can_use_soo(CallableType(c))
  THEN IF outcome = "throw" THEN [S EXCEPT !.thrown = "ctor"]
       ELSE set_callable(placement_new(S, Buf(w), "inline", c), w, Buf(w))
  ELSE IF outcome = "bad_alloc" THEN set_callable(S, w, NULL)
       ELSE LET S1 == operator_new(S)
                p == S1.log[Len(S1.log)].a
            IN IF outcome = "throw"
               THEN [operator_delete(S1, p) EXCEPT !.thrown = "ctor"]
               ELSE set_callable(placement_new(S1, p, "heap", c), w, p)

\* Faulty variant of construct_from: a null function pointer or an empty
\* std::function is recognised and leaves the wrapper empty, as
\* std::move_only_function does.
construct_from_null_stays_empty(S, w, c, outcome) ==
  IF CallableType(c).kind \in {"null_fp", "empty_function"} THEN S
  ELSE IF can_use_soo(CallableType(c))
  THEN IF outcome = "throw" THEN [S EXCEPT !.thrown = "ctor"]
       ELSE set_callable(placement_new(S, Buf(w), "inline", c), w, Buf(w))
  ELSE IF outcome = "bad_alloc" THEN [S EXCEPT !.thrown = "bad_alloc"]
       ELSE LET S1 == operator_new(S)
                p == S1.log[Len(S1.log)].a
            IN IF outcome = "throw"
               THEN [operator_delete(S1, p) EXCEPT !.thrown = "ctor"]
               ELSE set_callable(placement_new(S1, p, "heap", c), w, p)

\* template <typename F> move_only_function(F &&f); outcome says whether the
\* constructor of the payload throws or operator new fails
construct_from(S, w, c, outcome) ==
  IF can_use_soo(CallableType(c))
  THEN IF outcome = "throw" THEN [S EXCEPT !.thrown = "ctor"]
       ELSE set_callable(placement_new(S, Buf(w), "inline", c), w, Buf(w))
  ELSE IF outcome = "bad_alloc" THEN [S EXCEPT !.thrown = "bad_alloc"]
       ELSE LET S1 == operator_new(S)
                p == S1.log[Len(S1.log)].a
            IN IF outcome = "throw"
               THEN [operator_delete(S1, p) EXCEPT !.thrown = "ctor"]
               ELSE set_callable(placement_new(S1, p, "heap", c), w, p)

\* Faulty variant of move_assign: the identity test this != &other is missing.
move_assign_no_self_check(S, w, other) ==
  LET S0 == reset(S, w)
  IN IF S0.callable[other] # NULL
     THEN IF is_inline(S0, other)
          THEN LET S1 == move_to(S0, S0.callable[other], Buf(w))
                   S2 == set_callable(S1, w, Buf(w))
                   S3 == destroy(S2, S2.callable[other])
               IN set_callable(S3, other, NULL)
          ELSE LET S1 == set_callable(S0, w, S0.callable[other])
               IN set_callable(S1, other, NULL)
     ELSE S0

\* Faulty variant of move_assign: the inline branch relocates and destroys but
\* does not set other.callable to nullptr.
move_assign_inline_source_kept(S, w, other) ==
  IF w # other
  THEN LET S0 == reset(S, w)
       IN IF S0.callable[other] # NULL
          THEN IF is_inline(S0, other)
               THEN LET S1 == move_to(S0, S0.callable[other], Buf(w))
                        S2 == set_callable(S1, w, Buf(w))
                    IN destroy(S2, S2.callable[other])
               ELSE LET S1 == set_callable(S0, w, S0.callable[other])
                    IN set_callable(S1, other, NULL)
          ELSE S0
  ELSE S

\* Faulty variant of move_assign: the payload is transferred first and the
\* old payload is reset afterwards (through the handle saved on entry).
move_assign_reset_last(S, w, other) ==
  IF w # other
  THEN LET old == S.callable[w]
           S0 == IF S.callable[other] # NULL
                 THEN IF is_inline(S, other)
                      THEN LET S1 == move_to(S, S.callable[other], Buf(w))
                               S2 == set_callable(S1, w, Buf(w))
                               S3 == destroy(S2, S2.callable[other])
                           IN set_callable(S3, other, NULL)
                      ELSE LET S1 == set_callable(S, w, S.callable[other])
                           IN set_callable(S1, other, NULL)
                 ELSE set_callable(S, w, NULL)
       IN IF old = NULL THEN S0
          ELSE IF old = Buf(w) THEN S0
          ELSE delete(S0, old)
  ELSE S

\* Faulty variant of move_assign: the payload of other is relocated into this
\* wrapper's buffer with move_to whether it is inline or on the heap, and
\* other is reset.
move_assign_always_relocates(S, w, other) ==
  IF w # other
  THEN LET S0 == reset(S, w)
       IN IF S0.callable[other] # NULL
          THEN LET S1 == move_to(S0, S0.callable[other], Buf(w))
                   S2 == set_callable(S1, w, Buf(w))
               IN reset(S2, other)
          ELSE S0
  ELSE S

\* move_only_function &operator=(move_only_function &&other) noexcept
move_assign(S, w, other) ==
  IF w # other
  THEN LET S0 == reset(S, w)
       IN IF S0.callable[other] # NULL
          THEN IF is_inline(S0, other)
               THEN LET S1 == move_to(S0, S0.callable[other], Buf(w))
                        S2 == set_callable(S1, w, Buf(w))
                        S3 == destroy(S2, S2.callable[other])
                    IN set_callable(S3, other, NULL)
               ELSE LET S1 == set_callable(S0, w, S0.callable[other])
                    IN set_callable(S1, other, NULL)
          ELSE S0
  ELSE S

\* Faulty variant of swap: the identity test this == &other is missing.
swap_no_self_check(S, w, other) ==
  IF is_inline(S, w) /\ is_inline(S, other)
  THEN LET S1 == move_to(S, S.callable[w], temp_buffer)
           S2 == destroy(S1, S1.callable[w])
           S3 == move_to(S2, S2.callable[other], Buf(w))
           S4 == set_callable(S3, w, Buf(w))
           S5 == destroy(S4, S4.callable[other])
           S6 == move_to(S5, temp_buffer, Buf(other))
           S7 == set_callable(S6, other, Buf(other))
       IN destroy(S7, temp_buffer)
  ELSE IF is_inline(S, w) /\ ~is_inline(S, other)
  THEN LET heap_ptr == S.callable[other]
           S1 == move_to(S, S.callable[w], Buf(other))
           S2 == set_callable(S1, other, Buf(other))
           S3 == destroy(S2, S2.callable[w])
       IN set_callable(S3, w, heap_ptr)
  ELSE IF ~is_inline(S, w) /\ is_inline(S, other)
  THEN LET heap_ptr == S.callable[w]
           S1 == move_to(S, S.callable[other], Buf(w))
           S2 == set_callable(S1, w, Buf(w))
           S3 == destroy(S2, S2.callable[other])
       IN set_callable(S3, other, heap_ptr)
  ELSE LET S1 == set_callable(S, w, S.callable[other])
       IN set_callable(S1, other, S.callable[w])

\* Faulty variant of swap: the inline/inline branch does not destroy the
\* object it left in temp_buffer.
swap_temp_not_destroyed(S, w, other) ==
  IF w = other THEN S
  ELSE IF is_inline(S, w) /\ is_inline(S, other)
  THEN LET S1 == move_to(S, S.callable[w], temp_buffer)
           S2 == destroy(S1, S1.callable[w])
           S3 == move_to(S2, S2.callable[other], Buf(w))
           S4 == set_callable(S3, w, Buf(w))
           S5 == destroy(S4, S4.callable[other])
           S6 == move_to(S5, temp_buffer, Buf(other))
       IN set_callable(S6, other, Buf(other))
  ELSE IF is_inline(S, w) /\ ~is_inline(S, other)
  THEN LET heap_ptr == S.callable[other]
           S1 == move_to(S, S.callable[w], Buf(other))
           S2 == set_callable(S1, other, Buf(other))
           S3 == destroy(S2, S2.callable[w])
       IN set_callable(S3, w, heap_ptr)
  ELSE IF ~is_inline(S, w) /\ is_inline(S, other)
  THEN LET heap_ptr == S.callable[w]
           S1 == move_to(S, S.callable[other], Buf(w))
           S2 == set_callable(S1, w, Buf(w))
           S3 == destroy(S2, S2.callable[other])
       IN set_callable(S3, other, heap_ptr)
  ELSE LET S1 == set_callable(S, w, S.callable[other])
       IN set_callable(S1, other, S.callable[w])

\* Faulty variant of swap: the inline/heap branch relocates the inline payload
\* but never stores the saved heap pointer in this->callable.
swap_heap_ptr_dropped(S, w, other) ==
  IF w = other THEN S
  ELSE IF is_inline(S, w) /\ is_inline(S, other)
  THEN LET S1 == move_to(S, S.callable[w], temp_buffer)
           S2 == destroy(S1, S1.callable[w])
           S3 == move_to(S2, S2.callable[other], Buf(w))
           S4 == set_callable(S3, w, Buf(w))
           S5 == destroy(S4, S4.callable[other])
           S6 == move_to(S5, temp_buffer, Buf(other))
           S7 == set_callable(S6, other, Buf(other))
       IN destroy(S7, temp_buffer)
  ELSE IF is_inline(S, w) /\ ~is_inline(S, other)
  THEN LET S1 == move_to(S, S.callable[w], Buf(other))
           S2 == set_callable(S1, other, Buf(other))
       IN destroy(S2, S2.callable[w])
  ELSE IF ~is_inline(S, w) /\ is_inline(S, other)
  THEN LET heap_ptr == S.callable[w]
           S1 == move_to(S, S.callable[other], Buf(w))
           S2 == set_callable(S1, w, Buf(w))
           S3 == destroy(S2, S2.callable[other])
       IN set_callable(S3, other, heap_ptr)
  ELSE LET S1 == set_callable(S, w, S.callable[other])
       IN set_callable(S1, other, S.callable[w])

\* Faulty variant of swap: the two handles are exchanged in every branch, as
\* in the heap/heap branch, and no payload is relocated.
swap_pointers_only(S, w, other) ==
  IF w = other THEN S
  ELSE LET S1 == set_callable(S, w, S.callable[other])
       IN set_callable(S1, other, S.callable[w])

\* Faulty variant of swap: the mixed branches relocate the inline payload but
\* do not call callable->destroy() on the object it was moved from.
swap_mixed_no_destroy(S, w, other) ==
  IF w = other THEN S
  ELSE IF is_inline(S, w) /\ is_inline(S, other)
  THEN LET S1 == move_to(S, S.callable[w], temp_buffer)
           S2 == destroy(S1, S1.callable[w])
           S3 == move_to(S2, S2.callable[other], Buf(w))
           S4 == set_callable(S3, w, Buf(w))
           S5 == destroy(S4, S4.callable[other])
           S6 == move_to(S5, temp_buffer, Buf(other))
           S7 == set_callable(S6, other, Buf(other))
       IN destroy(S7, temp_buffer)
  ELSE IF is_inline(S, w) /\ ~is_inline(S, other)
  THEN LET heap_ptr == S.callable[other]
           S1 == move_to(S, S.callable[w], Buf(other))
           S2 == set_callable(S1, other, Buf(other))
       IN set_callable(S2, w, heap_ptr)
  ELSE IF ~is_inline(S, w) /\ is_inline(S, other)
  THEN LET heap_ptr == S.callable[w]
           S1 == move_to(S, S.callable[other], Buf(w))
           S2 == set_callable(S1, w, Buf(w))
       IN set_callable(S2, other, heap_ptr)
  ELSE LET S1 == set_callable(S, w, S.callable[other])
       IN set_callable(S1, other, S.callable[w])

\* Faulty variant of swap: the inline/heap branch calls other.reset() before it
\* relocates the inline payload into other's buffer.
swap_mixed_resets_other(S, w, other) ==
  IF w = other THEN S
  ELSE IF is_inline(S, w) /\ is_inline(S, other)
  THEN LET S1 == move_to(S, S.callable[w], temp_buffer)
           S2 == destroy(S1, S1.callable[w])
           S3 == move_to(S2, S2.callable[other], Buf(w))
           S4 == set_callable(S3, w, Buf(w))
           S5 == destroy(S4, S4.callable[other])
           S6 == move_to(S5, temp_buffer, Buf(other))
           S7 == set_callable(S6, other, Buf(other))
       IN destroy(S7, temp_buffer)
  ELSE IF is_inline(S, w) /\ ~is_inline(S, other)
  THEN LET S0 == reset(S, other)
           S1 == move_to(S0, S0.callable[w], Buf(other))
           S2 == set_callable(S1, other, Buf(other))
           S3 == destroy(S2, S2.callable[w])
       IN set_callable(S3, w, NULL)
  ELSE IF ~is_inline(S, w) /\ is_inline(S, other)
  THEN LET heap_ptr == S.callable[w]
           S1 == move_to(S, S.callable[other], Buf(w))
           S2 == set_callable(S1, w, Buf(w))
           S3 == destroy(S2, S2.callable[other])
       IN set_callable(S3, other, heap_ptr)
  ELSE LET S1 == set_callable(S, w, S.callable[other])
       IN set_callable(S1, other, S.callable[w])

\* Faulty variant of swap: the branch for a heap *this and an inline other is
\* missing, and that case falls through to the exchange of the two pointers.
swap_heap_inline_falls_through(S, w, other) ==
  IF w = other THEN S
  ELSE IF is_inline(S, w) /\ is_inline(S, other)
  THEN LET S1 == move_to(S, S.callable[w], temp_buffer)
           S2 == destroy(S1, S1.callable[w])
           S3 == move_to(S2, S2.callable[other], Buf(w))
           S4 == set_callable(S3, w, Buf(w))
           S5 == destroy(S4, S4.callable[other])
           S6 == move_to(S5, temp_buffer, Buf(other))
           S7 == set_callable(S6, other, Buf(other))
       IN destroy(S7, temp_buffer)
  ELSE IF is_inline(S, w) /\ ~is_inline(S, other)
  THEN LET heap_ptr == S.callable[other]
           S1 == move_to(S, S.callable[w], Buf(other))
           S2 == set_callable(S1, other, Buf(other))
           S3 == destroy(S2, S2.callable[w])
       IN set_callable(S3, w, heap_ptr)
  ELSE LET S1 == set_callable(S, w, S.callable[other])
       IN set_callable(S1, other, S.callable[w])

\* Faulty variant of swap: in the inline/inline branch the first
\* callable->destroy(), after the relocation into temp_buffer, is missing.
swap_first_destroy_missing(S, w, other) ==
  IF w = other THEN S
  ELSE IF is_inline(S, w) /\ is_inline(S, other)
  THEN LET S1 == move_to(S, S.callable[w], temp_buffer)
           S3 == move_to(S1, S1.callable[other], Buf(w))
           S4 == set_callable(S3, w, Buf(w))
           S5 == destroy(S4, S4.callable[other])
           S6 == move_to(S5, temp_buffer, Buf(other))
           S7 == set_callable(S6, other, Buf(other))
       IN destroy(S7, temp_buffer)
  ELSE IF is_inline(S, w) /\ ~is_inline(S, other)
  THEN LET heap_ptr == S.callable[other]
           S1 == move_to(S, S.callable[w], Buf(other))
           S2 == set_callable(S1, other, Buf(other))
           S3 == destroy(S2, S2.callable[w])
       IN set_callable(S3, w, heap_ptr)
  ELSE IF ~is_inline(S, w) /\ is_inline(S, other)
  THEN LET heap_ptr == S.callable[w]
           S1 == move_to(S, S.callable[other], Buf(w))
           S2 == set_callable(S1, w, Buf(w))
           S3 == destroy(S2, S2.callable[other])
       IN set_callable(S3, other, heap_ptr)
  ELSE LET S1 == set_callable(S, w, S.callable[other])
       IN set_callable(S1, other, S.callable[w])

\* Faulty variant of swap: it returns at once when either operand is empty.
swap_returns_on_empty(S, w, other) ==
  IF w = other \/ S.callable[w] = NULL \/ S.callable[other] = NULL THEN S
  ELSE IF is_inline(S, w) /\ is_inline(S, other)
  THEN LET S1 == move_to(S, S.callable[w], temp_buffer)
           S2 == destroy(S1, S1.callable[w])
           S3 == move_to(S2, S2.callable[other], Buf(w))
           S4 == set_callable(S3, w, Buf(w))
           S5 == destroy(S4, S4.callable[other])
           S6 == move_to(S5, temp_buffer, Buf(other))
           S7 == set_callable(S6, other, Buf(other))
       IN destroy(S7, temp_buffer)
  ELSE IF is_inline(S, w) /\ ~is_inline(S, other)
  THEN LET heap_ptr == S.callable[other]
           S1 == move_to(S, S.callable[w], Buf(other))
           S2 == set_callable(S1, other, Buf(other))
           S3 == destroy(S2, S2.callable[w])
       IN set_callable(S3, w, heap_ptr)
  ELSE IF ~is_inline(S, w) /\ is_inline(S, other)
  THEN LET heap_ptr == S.callable[w]
           S1 == move_to(S, S.callable[other], Buf(w))
           S2 == set_callable(S1, w, Buf(w))
           S3 == destroy(S2, S2.callable[other])
       IN set_callable(S3, other, heap_ptr)
  ELSE LET S1 == set_callable(S, w, S.callable[other])
       IN set_callable(S1, other, S.callable[w])

\* Faulty variant of swap: the first branch tests callable && other.callable
\* instead of is_inline() && other.is_inline().
swap_relocates_when_both_hold(S, w, other) ==
  IF w = other THEN S
  ELSE IF S.callable[w] # NULL /\ S.callable[other] # NULL
  THEN LET S1 == move_to(S, S.callable[w], temp_buffer)
           S2 == destroy(S1, S1.callable[w])
           S3 == move_to(S2, S2.callable[other], Buf(w))
           S4 == set_callable(S3, w, Buf(w))
           S5 == destroy(S4, S4.callable[other])
           S6 == move_to(S5, temp_buffer, Buf(other))
           S7 == set_callable(S6, other, Buf(other))
       IN destroy(S7, temp_buffer)
  ELSE IF is_inline(S, w) /\ ~is_inline(S, other)
  THEN LET heap_ptr == S.callable[other]
           S1 == move_to(S, S.callable[w], Buf(other))
           S2 == set_callable(S1, other, Buf(other))
           S3 == destroy(S2, S2.callable[w])
       IN set_callable(S3, w, heap_ptr)
  ELSE IF ~is_inline(S, w) /\ is_inline(S, other)
  THEN LET heap_ptr == S.callable[w]
           S1 == move_to(S, S.callable[other], Buf(w))
           S2 == set_callable(S1, w, Buf(w))
           S3 == destroy(S2, S2.callable[other])
       IN set_callable(S3, other, heap_ptr)
  ELSE LET S1 == set_callable(S, w, S.callable[other])
       IN set_callable(S1, other, S.callable[w])

\* void swap(move_only_function &other) noexcept
swap(S, w, other) ==
  IF w = other THEN S
  ELSE IF is_inline(S, w) /\ is_inline(S, other)
  THEN LET S1 == move_to(S, S.callable[w], temp_buffer)
           S2 == destroy(S1, S1.callable[w])
           S3 == move_to(S2, S2.callable[other], Buf(w))
           S4 == set_callable(S3, w, Buf(w))
           S5 == destroy(S4, S4.callable[other])
           S6 == move_to(S5, temp_buffer, Buf(other))
           S7 == set_callable(S6, other, Buf(other))
       IN destroy(S7, temp_buffer)
  ELSE IF is_inline(S, w) /\ ~is_inline(S, other)
  THEN LET heap_ptr == S.callable[other]
           S1 == move_to(S, S.callable[w], Buf(other))
           S2 == set_callable(S1, other, Buf(other))
           S3 == destroy(S2, S2.callable[w])
       IN set_callable(S3, w, heap_ptr)
  ELSE IF ~is_inline(S, w) /\ is_inline(S, other)
  THEN LET heap_ptr == S.callable[w]
           S1 == move_to(S, S.callable[other], Buf(w))
           S2 == set_callable(S1, w, Buf(w))
           S3 == destroy(S2, S2.callable[other])
       IN set_callable(S3, other, heap_ptr)
  ELSE LET S1 == set_callable(S, w, S.callable[other])
       IN set_callable(S1, other, S.callable[w])

\* Faulty variant of assign_from: reset first, then construct the new payload
\* in place, instead of constructing a temporary and swapping.
assign_from_reset_first(S, w, c, outcome) ==
  construct_from(reset(S, w), w, c, outcome)

\* Faulty variant of assign_from: after the swap the temporary gives up its
\* handle (tmp.callable = nullptr) instead of being destroyed.
assign_from_releases_tmp(S, w, c, outcome) ==
  LET S1 == construct_from(S, TMP, c, outcome)
  IN IF S1.thrown # "none" THEN S1
     ELSE set_callable(swap(S1, w, TMP), TMP, NULL)

\* template <typename F> move_only_function &operator=(F &&f)
assign_from(S, w, c, outcome) ==
  LET S1 == construct_from(S, TMP, c, outcome)
  IN IF S1.thrown # "none" THEN S1
     ELSE reset(swap(S1, w, TMP), TMP)

\* R operator()(Args... args) const, on a non-empty wrapper: the value returned
\* (-1 stands for whatever a call through a dead or moved-from object gives)
invoke(S, w) ==
  IF ~HasObj(S, S.callable[w]) \/ S.mem[S.callable[w]].moved THEN -1
  ELSE CallableType(S.mem[S.callable[w]].c).ret

\* what the held callable's own operator() returns for an argument
func_call(c, arg) == CallableType(c).ret + arg

\* *ptr of the SelfReferential at p can be read: ptr leads to the value of a
\* living SelfReferential
ptr_readable(S, p) ==
  /\ HasObj(S, S.mem[p].ptr)
  /\ CallableType(S.mem[S.mem[p].ptr].c).kind = "self_ref"

\* the value operator() of the callable in the object at p returns:
\* ++call_count, ptr ? *ptr : -1, or a value computed from the argument; a
\* read through a ptr that leads nowhere gives whatever is there (-1)
func_value(S, p, arg) ==
  LET kind == CallableType(S.mem[p].c).kind
  IN IF kind = "mutable" THEN S.mem[p].call_count + 1
     ELSE IF kind = "self_ref"
     THEN IF S.mem[p].ptr = NULL THEN -1
          ELSE IF ptr_readable(S, p) THEN CallableType(S.mem[S.mem[p].ptr].c).ret
          ELSE -1
     ELSE IF kind = "null_fp" THEN -1
     ELSE func_call(S.mem[p].c, arg)

\* what operator() of the callable in the object at p does to the state:
\* ++call_count; a read through a ptr that leads nowhere is undefined
func_effect(S, p) ==
  LET kind == CallableType(S.mem[p].c).kind
  IN IF kind = "mutable" THEN [S EXCEPT !.mem[p].call_count = @ + 1]
     ELSE IF kind = "self_ref" /\ S.mem[p].ptr # NULL /\ ~ptr_readable(S, p)
     THEN Fault(S, "dangling_read")
     ELSE IF kind = "null_fp" THEN Fault(S, "null_fp_call")
     ELSE S

\* operator() of the callable in the object at p throws: because the client's
\* callable does (outcome), or because it is an empty std::function
func_throws(S, p, outcome) ==
  outcome = "throw" \/ CallableType(S.mem[p].c).kind = "empty_function"

\* Faulty variant of invoke_and_return: the void branch returns without
\* calling std::invoke.
invoke_and_return_void_skips(S, void_R, p, arg, outcome) ==
  IF void_R THEN S
  ELSE LET S1 == Log(S, "call", S.mem[p].c, arg)
       IN IF func_throws(S, p, outcome) THEN [S1 EXCEPT !.thrown = "callable"]
          ELSE [func_effect(S1, p) EXCEPT !.result = <<func_value(S, p, arg)>>]

\* invoke_and_return<R>(func, args...): std::invoke(func, args...), whose value
\* is returned unless R is void; outcome says whether func throws.  func is
\* the member of the implementation object at p.
invoke_and_return(S, void_R, p, arg, outcome) ==
  LET S1 == Log(S, "call", S.mem[p].c, arg)
  IN IF func_throws(S, p, outcome) THEN [S1 EXCEPT !.thrown = "callable"]
     ELSE IF void_R THEN func_effect(S1, p)
     ELSE [func_effect(S1, p) EXCEPT !.result = <<func_value(S, p, arg)>>]

\* p->invoke(args...), the virtual call; through an object that is dead or
\* moved from it is undefined and -1 stands for whatever comes back
callable_invoke(S, p, arg, void_R, outcome) ==
  IF ~HasObj(S, p) \/ S.mem[p].moved
  THEN [Fault(S, "dangling_call") EXCEPT !.result = <<-1>>]
  ELSE invoke_and_return(Log(S, "invoke", p, arg), void_R, p, arg, outcome)

\* Faulty variant of operator_call: an exception of the callable is caught,
\* the wrapper is reset and std::bad_function_call is thrown instead.
operator_call_rethrows_other(S, w, ndebug, ub_outcome, arg, void_R, outcome) ==
  IF S.callable[w] = NULL
  THEN IF ~ndebug THEN [S EXCEPT !.thrown = "abort"]
       ELSE IF ub_outcome = "crash"
            THEN [Fault(S, "null_call") EXCEPT !.thrown = "crash"]
            ELSE [Fault(S, "null_call") EXCEPT !.result = <<-1>>]
  ELSE LET S1 == callable_invoke(S, S.callable[w], arg, void_R, outcome)
       IN IF S1.thrown = "callable"
          THEN [reset(S1, w) EXCEPT !.thrown = "bad_function_call"]
          ELSE S1

\* R operator()(Args... args) const, the whole call.  On an empty wrapper the
\* assert aborts the program; where NDEBUG removes the assert the virtual call
\* goes through a null pointer, which is undefined: ub_outcome is what the
\* build makes of it, a crash or a return with some value.
operator_call(S, w, ndebug, ub_outcome, arg, void_R, outcome) ==
  IF S.callable[w] = NULL
  THEN IF ~ndebug THEN [S EXCEPT !.thrown = "abort"]
       ELSE IF ub_outcome = "crash"
            THEN [Fault(S, "null_call") EXCEPT !.thrown = "crash"]
            ELSE [Fault(S, "null_call") EXCEPT !.result = <<-1>>]
  ELSE callable_invoke(S, S.callable[w], arg, void_R, outcome)

\* Faulty variant of bool: is_inline() is returned instead of
\* callable != nullptr.
bool_is_inline(S, w) == is_inline(S, w)

\* explicit operator bool() const noexcept
bool(S, w) == S.callable[w] # NULL

----------------------------------------------------------------------------
(* The client program: the calls it makes on its wrappers, one at a time.  *)
(* `last` is a history variable: the call that has just returned, the      *)
(* state it started from and the events it produced.  The client takes     *)
(* note of it (Return) before it makes its next call.                      *)

\* what the construction of a payload from callable c can do
Outcomes(c) == IF can_use_soo(CallableType(c)) THEN {"ok", "throw"} ELSE {"ok", "throw", "bad_alloc"}
\* the construction reaches operator new
Allocates(c, outcome) == ~can_use_soo(CallableType(c)) /\ outcome # "bad_alloc"

Snapshot ==
  [ alive |-> alive, callable |-> callable, mem |-> mem, heap |-> heap,
    allocation_count |-> allocation_count,
    deallocation_count |-> deallocation_count ]

Idle == last.op = "none"

\* no can_use_soo<Callable>() is being looked at
NotInstantiated ==
  [ T |-> [size |-> 0, align |-> 0, nothrow_move |-> FALSE],
    instantiated |-> FALSE, value |-> FALSE ]

Commit(S, op, w, other, c, newAlive) ==
  /\ alive' = newAlive
  /\ callable' = S.callable
  /\ mem' = S.mem
  /\ heap' = S.heap
  /\ allocation_count' = S.allocation_count
  /\ deallocation_count' = S.deallocation_count
  /\ ub' = S.ub
  /\ last' = [ op |-> op, self |-> w, other |-> other, c |-> c,
               thrown |-> S.thrown, result |-> S.result, input |-> S.input,
               log |-> S.log,
               pre |-> Snapshot ]
  /\ UNCHANGED <<soo, thread, interleaved>>

Init ==
  /\ alive = [w \in Wrappers |-> FALSE]
  /\ callable = [w \in AllWrappers |-> NULL]
  /\ mem = [a \in ObjAddrs |-> NoObj]
  /\ heap = {}
  /\ allocation_count = 0
  /\ deallocation_count = 0
  /\ ub = {}
  /\ soo = NotInstantiated
  /\ thread = [t \in Threads |-> NoThread]
  /\ interleaved = FALSE
  /\ last = [ op |-> "none", self |-> 0, other |-> 0, c |-> 0,
              thrown |-> "none", result |-> <<>>, input |-> NoInput, log |-> <<>>,
              pre |-> [ alive |-> [w \in Wrappers |-> FALSE],
                        callable |-> [w \in AllWrappers |-> NULL],
                        mem |-> [a \in ObjAddrs |-> NoObj], heap |-> {},
                        allocation_count |-> 0, deallocation_count |-> 0 ] ]

\* move_only_function() noexcept = default
DefaultConstruct(w) ==
  /\ Idle
  /\ ~alive[w]
  /\ Commit(Cur, "default_construct", w, 0, 0, [alive EXCEPT ![w] = TRUE])

\* move_only_function(std::nullptr_t) noexcept
NullptrConstruct(w) ==
  /\ Idle
  /\ ~alive[w]
  /\ Commit(Cur, "nullptr_construct", w, 0, 0, [alive EXCEPT ![w] = TRUE])

\* move_only_function w(f): on a throw the wrapper never comes to life
ConstructFrom(w, c, outcome) ==
  /\ Idle
  /\ ~alive[w]
  /\ outcome \in Outcomes(c)
  /\ Allocates(c, outcome) => allocation_count < MaxAllocs
  /\ LET S == construct_from([Cur EXCEPT !.input.outcome = outcome], w, c, outcome)
     IN Commit(S, "construct_from", w, 0, c,
               [alive EXCEPT ![w] = (S.thrown = "none")])

\* move_only_function w(std::move(other))
MoveConstruct(w, other) ==
  /\ Idle
  /\ ~alive[w]
  /\ alive[other]
  /\ Commit(move_ctor(Cur, w, other), "move_construct", w, other, 0,
            [alive EXCEPT ![w] = TRUE])

\* ~move_only_function() noexcept
Destroy(w) ==
  /\ Idle
  /\ alive[w]
  /\ Commit(reset(Cur, w), "destroy", w, 0, 0, [alive EXCEPT ![w] = FALSE])

\* w = std::move(other), other possibly w itself
MoveAssign(w, other) ==
  /\ Idle
  /\ alive[w]
  /\ alive[other]
  /\ Commit(move_assign(Cur, w, other), "move_assign", w, other, 0, alive)

\* w = nullptr
AssignNull(w) ==
  /\ Idle
  /\ alive[w]
  /\ Commit(reset(Cur, w), "assign_null", w, 0, 0, alive)

\* w = f
AssignFrom(w, c, outcome) ==
  /\ Idle
  /\ alive[w]
  /\ outcome \in Outcomes(c)
  /\ Allocates(c, outcome) => allocation_count < MaxAllocs
  /\ Commit(assign_from([Cur EXCEPT !.input.outcome = outcome], w, c, outcome),
            "assign_from", w, 0, c, alive)

\* w.swap(other) and swap(w, other), other possibly w itself
Swap(w, other) ==
  /\ Idle
  /\ alive[w]
  /\ alive[other]
  /\ Commit(swap(Cur, w, other), "swap", w, other, 0, alive)

\* what a call through a null handle can do in this build
NullCallOutcomes(w, ndebug) ==
  IF callable[w] = NULL /\ ndebug THEN {"crash", "garbage"} ELSE {"none"}

\* the arguments a call is made with
ArgValues == {1, 2}
\* a call of a wrapper of signature int(int) whose callable returns
PlainCall == [arg |-> 1, void_R |-> FALSE, outcome |-> "return"]

\* w(args...); ndebug: the translation unit is compiled with NDEBUG defined,
\* so that assert() expands to nothing.  Only a call on an empty wrapper reads
\* it, and the program does not go on after such a call.
Invoke(w, ndebug, ub_outcome, arg, void_R, outcome) ==
  /\ Idle
  /\ alive[w]
  /\ ub_outcome \in NullCallOutcomes(w, ndebug)
  /\ HasObj(Cur, callable[w]) => mem[callable[w]].call_count < MaxCalls
  /\ LET S == [Cur EXCEPT !.input = [arg |-> arg, void_R |-> void_R, outcome |-> outcome]]
     IN Commit(operator_call(S, w, ndebug, ub_outcome, arg, void_R, outcome),
               "invoke", w, 0, 0, alive)

\* the program has ended: abort() of a failed assert, std::terminate, a crash, or undefined
\* behaviour, after which nothing is known of it
Ended == last.thrown \in {"abort", "crash", "terminate"} \/ ub # {}

\* the call has returned and the client goes on to its next statement
Return ==
  /\ ~Idle
  /\ ~Ended
  /\ last' = [ op |-> "none", self |-> 0, other |-> 0, c |-> 0,
               thrown |-> "none", result |-> <<>>, input |-> NoInput, log |-> <<>>, pre |-> Snapshot ]
  /\ UNCHANGED <<alive, callable, mem, heap, allocation_count, deallocation_count, ub,
                 soo, thread, interleaved>>

Next ==
  \/ \E w \in Wrappers : DefaultConstruct(w)
  \/ \E w \in Wrappers : NullptrConstruct(w)
  \/ \E w \in Wrappers, c \in Callables, outcome \in {"ok", "throw", "bad_alloc"} :
       ConstructFrom(w, c, outcome)
  \/ \E w \in Wrappers, other \in Wrappers : MoveConstruct(w, other)
  \/ \E w \in Wrappers : Destroy(w)
  \/ \E w \in Wrappers, other \in Wrappers : MoveAssign(w, other)
  \/ \E w \in Wrappers : AssignNull(w)
  \/ \E w \in Wrappers, c \in Callables, outcome \in {"ok", "throw", "bad_alloc"} :
       AssignFrom(w, c, outcome)
  \/ \E w \in Wrappers, other \in Wrappers : Swap(w, other)
  \/ \E w \in Wrappers, ndebug \in BOOLEAN, ub_outcome \in {"none", "crash", "garbage"} :
       Invoke(w, ndebug, ub_outcome, PlainCall.arg, PlainCall.void_R, PlainCall.outcome)
  \/ Return

Spec == Init /\ [][Next]_vars

----------------------------------------------------------------------------
(* The same client, making calls with every argument, of a wrapper whose   *)
(* signature returns a value or void, and whose callable returns or throws. *)

NextInvoke ==
  \/ \E w \in Wrappers : DefaultConstruct(w)
  \/ \E w \in Wrappers : NullptrConstruct(w)
  \/ \E w \in Wrappers, c \in Callables, outcome \in {"ok", "throw", "bad_alloc"} :
       ConstructFrom(w, c, outcome)
  \/ \E w \in Wrappers, other \in Wrappers : MoveConstruct(w, other)
  \/ \E w \in Wrappers : Destroy(w)
  \/ \E w \in Wrappers, other \in Wrappers : MoveAssign(w, other)
  \/ \E w \in Wrappers : AssignNull(w)
  \/ \E w \in Wrappers, c \in Callables, outcome \in {"ok", "throw", "bad_alloc"} :
       AssignFrom(w, c, outcome)
  \/ \E w \in Wrappers, other \in Wrappers : Swap(w, other)
  \/ \E w \in Wrappers, ndebug \in BOOLEAN, ub_outcome \in {"none", "crash", "garbage"},
        arg \in ArgValues, void_R \in BOOLEAN, outcome \in {"return", "throw"} :
       Invoke(w, ndebug, ub_outcome, arg, void_R, outcome)
  \/ Return

SpecInvoke == Init /\ [][NextInvoke]_vars

----------------------------------------------------------------------------
(* A client whose callables have state of their own: it constructs, calls, *)
(* moves and swaps wrappers of MutableCallable and SelfReferential.        *)

NextPayload ==
  \/ \E w \in Wrappers, c \in StatefulCallables : ConstructFrom(w, c, "ok")
  \/ \E w \in Wrappers, other \in Wrappers : MoveConstruct(w, other)
  \/ \E w \in Wrappers : Destroy(w)
  \/ \E w \in Wrappers, other \in Wrappers : MoveAssign(w, other)
  \/ \E w \in Wrappers, other \in Wrappers : Swap(w, other)
  \/ \E w \in Wrappers, ndebug \in BOOLEAN, ub_outcome \in {"none", "crash", "garbage"} :
       Invoke(w, ndebug, ub_outcome, PlainCall.arg, PlainCall.void_R, PlainCall.outcome)
  \/ Return

SpecPayload == Init /\ [][NextPayload]_vars

----------------------------------------------------------------------------
(* A client that wraps function pointers and std::function objects, null   *)
(* or not, and goes on to use the wrappers in every way.                   *)

NextNullable ==
  \/ \E w \in Wrappers : DefaultConstruct(w)
  \/ \E w \in Wrappers : NullptrConstruct(w)
  \/ \E w \in Wrappers, c \in NullableCallables : ConstructFrom(w, c, "ok")
  \/ \E w \in Wrappers, other \in Wrappers : MoveConstruct(w, other)
  \/ \E w \in Wrappers : Destroy(w)
  \/ \E w \in Wrappers, other \in Wrappers : MoveAssign(w, other)
  \/ \E w \in Wrappers : AssignNull(w)
  \/ \E w \in Wrappers, c \in NullableCallables : AssignFrom(w, c, "ok")
  \/ \E w \in Wrappers, other \in Wrappers : Swap(w, other)
  \/ \E w \in Wrappers, ndebug \in BOOLEAN, ub_outcome \in {"none", "crash", "garbage"} :
       Invoke(w, ndebug, ub_outcome, PlainCall.arg, PlainCall.void_R, PlainCall.outcome)
  \/ Return

SpecNullable == Init /\ [][NextNullable]_vars

----------------------------------------------------------------------------
(* The member functions statement by statement, for two callers that are   *)
(* inside member functions of the same wrappers at the same time.  A       *)
(* caller's thread[t].rest is what is left of its member function: a       *)
(* sequence of statements; a branch on callable and is_inline() is a       *)
(* statement that puts the statements of the branch taken in front of the  *)
(* rest.  thread[t].p is the caller's local pointer (heap_ptr of swap, the *)
(* temporary of std::swap, the handle operator() calls through).           *)

\* a statement: i says what it does, a and b are its operands
Instr(i, a, b) == [i |-> i, a |-> a, b |-> b]

\* Faulty variant of reset_steps: callable = nullptr is missing.
reset_steps_no_clear(S, w) ==
  IF S.callable[w] = NULL THEN <<>>
  ELSE IF is_inline(S, w) THEN <<Instr("destroy", w, 0)>>
  ELSE <<Instr("delete", w, 0)>>

\* reset(): the statements of the branch taken in state S
reset_steps(S, w) ==
  IF S.callable[w] = NULL THEN <<>>
  ELSE IF is_inline(S, w) THEN <<Instr("destroy", w, 0), Instr("clear", w, 0)>>
  ELSE <<Instr("delete", w, 0), Instr("clear", w, 0)>>

\* operator=(move_only_function &&other) after reset(): the statements of the
\* branch taken in state S
move_steps(S, w, other) ==
  IF S.callable[other] = NULL THEN <<>>
  ELSE IF is_inline(S, other)
  THEN << Instr("move_to", other, Buf(w)), Instr("set", w, Buf(w)),
          Instr("destroy", other, 0), Instr("clear", other, 0) >>
  ELSE << Instr("copy", w, other), Instr("clear", other, 0) >>

\* swap(other) of caller t: the statements of the branch taken in state S;
\* std::swap of the last branch is a load, a copy and a store
swap_steps(S, t, w, other) ==
  IF is_inline(S, w) /\ is_inline(S, other)
  THEN << Instr("move_to", w, TempBuf(t)), Instr("destroy", w, 0),
          Instr("move_to", other, Buf(w)), Instr("set", w, Buf(w)),
          Instr("destroy", other, 0),
          Instr("move_at", TempBuf(t), Buf(other)), Instr("set", other, Buf(other)),
          Instr("destroy_at", TempBuf(t), 0) >>
  ELSE IF is_inline(S, w) /\ ~is_inline(S, other)
  THEN << Instr("load", other, 0),
          Instr("move_to", w, Buf(other)), Instr("set", other, Buf(other)),
          Instr("destroy", w, 0), Instr("store", w, 0) >>
  ELSE IF ~is_inline(S, w) /\ is_inline(S, other)
  THEN << Instr("load", w, 0),
          Instr("move_to", other, Buf(w)), Instr("set", w, Buf(w)),
          Instr("destroy", other, 0), Instr("store", other, 0) >>
  ELSE << Instr("load", w, 0), Instr("copy", w, other), Instr("store", other, 0) >>

\* the member function a caller enters, as statements
program(op, w, other) ==
  IF op = "invoke" THEN <<Instr("load", w, 0), Instr("call", 0, 0)>>
  ELSE IF op = "move_assign"
  THEN IF w = other THEN <<>>
       ELSE <<Instr("reset_test", w, 0), Instr("move_test", w, other)>>
  ELSE IF w = other THEN <<>>
       ELSE <<Instr("swap_test", w, other)>>

\* caller t executes the next statement of T.rest in state S: the state and
\* the caller afterwards.  Every statement reads the member callable when it
\* is executed; delete of a null pointer does nothing.
exec(S, T, t) ==
  LET ins == Head(T.rest)
      rest == Tail(T.rest)
      T1 == [T EXCEPT !.rest = rest]
  IN CASE ins.i = "reset_test" ->
            [S |-> S, T |-> [T EXCEPT !.rest = reset_steps(S, ins.a) \o rest]]
       [] ins.i = "move_test" ->
            [S |-> S, T |-> [T EXCEPT !.rest = move_steps(S, ins.a, ins.b) \o rest]]
       [] ins.i = "swap_test" ->
            [S |-> S, T |-> [T EXCEPT !.rest = swap_steps(S, t, ins.a, ins.b) \o rest]]
       [] ins.i = "destroy" -> [S |-> destroy(S, S.callable[ins.a]), T |-> T1]
       [] ins.i = "destroy_at" -> [S |-> destroy(S, ins.a), T |-> T1]
       [] ins.i = "delete" ->
            [S |-> IF S.callable[ins.a] = NULL THEN S ELSE delete(S, S.callable[ins.a]),
             T |-> T1]
       [] ins.i = "clear" -> [S |-> set_callable(S, ins.a, NULL), T |-> T1]
       [] ins.i = "move_to" -> [S |-> move_to(S, S.callable[ins.a], ins.b), T |-> T1]
       [] ins.i = "move_at" -> [S |-> move_to(S, ins.a, ins.b), T |-> T1]
       [] ins.i = "set" -> [S |-> set_callable(S, ins.a, ins.b), T |-> T1]
       [] ins.i = "copy" -> [S |-> set_callable(S, ins.a, S.callable[ins.b]), T |-> T1]
       [] ins.i = "load" -> [S |-> S, T |-> [T1 EXCEPT !.p = S.callable[ins.a]]]
       [] ins.i = "store" -> [S |-> set_callable(S, ins.a, T.p), T |-> T1]
       [] ins.i = "call" ->
            [S |-> IF T.p = NULL THEN Fault(S, "null_call")
                   ELSE callable_invoke(S, T.p, PlainCall.arg, PlainCall.void_R,
                                        PlainCall.outcome),
             T |-> T1]

\* caller t is inside a member function
Busy(t) == thread[t].rest # <<>>

\* the other caller is inside a member function of a wrapper that the member
\* function of caller t works on
Overlaps(t, w, other) ==
  \E u \in Threads \ {t} :
    Busy(u) /\ {thread[u].self, thread[u].other} \cap {w, other} # {}

\* no caller is or has been inside a member function
NoCalls == \A t \in Threads : thread[t] = NoThread

\* the member functions the callers have entered so far
RECURSIVE Entered(_)
Entered(ts) ==
  IF ts = {} THEN 0
  ELSE LET t == CHOOSE x \in ts : TRUE
       IN thread[t].entered + Entered(ts \ {t})

\* caller t enters a member function of w: w(args...) after it has seen that w
\* is not empty, w = std::move(other) or w.swap(other).  What a caller that
\* has returned leaves in thread is forgotten.  thread[t].pre is the state
\* the call began in, kept as long as the call has the wrappers to itself
\* (alone).
Begin(t, op, w, other) ==
  /\ Idle
  /\ ub = {}
  /\ ~Busy(t)
  /\ Entered(Threads) < MaxEntries
  /\ alive[w]
  /\ alive[other]
  /\ op = "invoke" => w = other /\ callable[w] # NULL
  /\ op # "invoke" => w # other
  /\ thread' = [u \in Threads |->
                  IF u = t
                  THEN [op |-> op, self |-> w, other |-> other,
                        rest |-> program(op, w, other), p |-> NULL,
                        entered |-> thread[t].entered + 1,
                        alone |-> \A v \in Threads \ {t} : ~Busy(v),
                        pre |-> IF \A v \in Threads \ {t} : ~Busy(v)
                                THEN Snapshot ELSE NoThread.pre]
                  ELSE IF Busy(u)
                  THEN [thread[u] EXCEPT !.alone = FALSE, !.pre = NoThread.pre]
                  ELSE [NoThread EXCEPT !.entered = thread[u].entered]]
  /\ interleaved' = (interleaved \/ Overlaps(t, w, other))
  /\ UNCHANGED <<alive, callable, mem, heap, allocation_count, deallocation_count, ub,
                 last, soo>>

\* caller t executes its next statement
StepThread(t) ==
  /\ Busy(t)
  /\ ub = {}
  /\ LET r == exec(Cur, thread[t], t)
     IN /\ callable' = r.S.callable
        /\ mem' = r.S.mem
        /\ heap' = r.S.heap
        /\ allocation_count' = r.S.allocation_count
        /\ deallocation_count' = r.S.deallocation_count
        /\ ub' = r.S.ub
        /\ thread' = [thread EXCEPT ![t] = r.T]
  /\ interleaved' = (interleaved \/ Overlaps(t, thread[t].self, thread[t].other))
  /\ UNCHANGED <<alive, last, soo>>

\* the wrappers the two callers share
Shared == {1, 2}

\* the client sets the shared wrappers up, empty, with an inline payload or
\* with a heap payload, before any caller enters a member function
NextInterleaved ==
  \/ \E w \in Shared : NoCalls /\ DefaultConstruct(w)
  \/ \E w \in Shared, c \in {1, 3} : NoCalls /\ ConstructFrom(w, c, "ok")
  \/ NoCalls /\ Return
  \/ \E t \in Threads, op \in {"invoke", "move_assign", "swap"},
        w \in Shared, other \in Shared : Begin(t, op, w, other)
  \/ \E t \in Threads : StepThread(t)

SpecInterleaved == Init /\ [][NextInterleaved]_vars

----------------------------------------------------------------------------
(* The dispatch interface on its own: callable_base::destroy applied to    *)
(* the object a wrapper holds, next to the wrapper's own ways of ending a  *)
(* payload.                                                                *)

\* callable->destroy() on the payload of w
CallDestroy(w) ==
  /\ Idle
  /\ alive[w]
  /\ HasObj(Cur, callable[w])
  /\ Commit(destroy(Cur, callable[w]), "callable_destroy", w, 0, 0, alive)

NextDispatch ==
  \/ \E w \in Wrappers, c \in Callables, outcome \in {"ok", "throw", "bad_alloc"} :
       ConstructFrom(w, c, outcome)
  \/ \E w \in Wrappers : CallDestroy(w)
  \/ \E w \in Wrappers : AssignNull(w)
  \/ \E w \in Wrappers : Destroy(w)
  \/ Return

SpecDispatch == Init /\ [][NextDispatch]_vars

----------------------------------------------------------------------------
(* can_use_soo<Callable>() over the callable types: Callable is any object *)
(* type, so sizeof is a positive multiple of alignof and alignof a power   *)
(* of two.                                                                 *)

\* largest sizeof(Callable) instantiated
MaxSize == 40
\* alignof(Callable), up to twice alignof(std::max_align_t)
Alignments == {1, 2, 4, 8, buffer_align, 2 * buffer_align}

CallableTypes ==
  { T \in [size : 1..MaxSize, align : Alignments, nothrow_move : BOOLEAN] :
      T.size % T.align = 0 }

InitClassify ==
  /\ alive = [w \in Wrappers |-> FALSE]
  /\ callable = [w \in AllWrappers |-> NULL]
  /\ mem = [a \in ObjAddrs |-> NoObj]
  /\ heap = {}
  /\ allocation_count = 0
  /\ deallocation_count = 0
  /\ ub = {}
  /\ thread = [t \in Threads |-> NoThread]
  /\ interleaved = FALSE
  /\ last = [ op |-> "none", self |-> 0, other |-> 0, c |-> 0,
              thrown |-> "none", result |-> <<>>, input |-> NoInput, log |-> <<>>, pre |-> Snapshot ]
  /\ \E T \in CallableTypes :
       soo = [T |-> T, instantiated |-> FALSE, value |-> FALSE]

\* the compiler evaluates can_use_soo<Callable>()
Classify ==
  /\ ~soo.instantiated
  /\ soo' = [soo EXCEPT !.instantiated = TRUE, !.value = can_use_soo(soo.T)]
  /\ UNCHANGED <<alive, callable, mem, heap, allocation_count, deallocation_count, ub,
                 last, thread, interleaved>>

NextClassify == Classify

SpecClassify == InitClassify /\ [][NextClassify]_vars

----------------------------------------------------------------------------
(* Vocabulary of the properties.  P is a snapshot of the state: the        *)
(* current one (Now) or the one the last call started from (last.pre).     *)

Now == Snapshot

\* the object at address a is alive and has not been moved from
LiveAt(P, a) == a \in ObjAddrs /\ P.mem[a].impl # "none" /\ ~P.mem[a].moved

\* wrapper w owns a payload: its handle is not null
Holding(P, w) == P.callable[w] # NULL

\* the storage state of wrapper w, as the tag of the data model
Tag(P, w) ==
  IF P.callable[w] = NULL THEN "Empty"
  ELSE IF P.callable[w] = Buf(w) THEN "Inline"
  ELSE IF P.callable[w] \in HeapAddrs THEN "Heap"
  ELSE "Wild"

\* the callable wrapper w holds: 0 when w is empty, -1 when its handle does not
\* lead to a live payload
Payload(P, w) ==
  IF ~Holding(P, w) THEN 0
  ELSE IF LiveAt(P, P.callable[w]) THEN P.mem[P.callable[w]].c
  ELSE -1

\* the handle of w leads to a live payload whose memory is still owned
ValidHandle(P, w) ==
  /\ LiveAt(P, P.callable[w])
  /\ P.callable[w] \in HeapAddrs => P.callable[w] \in P.heap

\* how often event e happened at address a during the last call
CountEv(e, a) ==
  Cardinality({ i \in DOMAIN last.log : last.log[i].ev = e /\ last.log[i].a = a })
\* how often event e happened during the last call
CountAll(e) == Cardinality({ i \in DOMAIN last.log : last.log[i].ev = e })

AliveWrappers == { w \in Wrappers : alive[w] }

----------------------------------------------------------------------------
(* C1 *)

\* C1: in every reachable state each wrapper owns at most one payload (a live
\* object in its own buffer is the one its handle names, so a wrapper never has
\* a buffer payload and a heap payload at once), every payload in memory has
\* exactly one owner, and no two wrappers' handles name the same payload.
C1_ExclusiveOwnership ==
  /\ \A w \in Wrappers :
       mem[Buf(w)].impl # "none" => alive[w] /\ callable[w] = Buf(w)
  /\ \A a \in ObjAddrs :
       mem[a].impl # "none" =>
         Cardinality({ w \in AliveWrappers : callable[w] = a }) = 1
  /\ \A a \in heap :
       Cardinality({ w \in AliveWrappers : callable[w] = a }) = 1
  /\ \A w1, w2 \in AliveWrappers :
       w1 # w2 /\ Holding(Now, w1) => callable[w1] # callable[w2]

\* two wrappers own payloads at once, one inline and one on the heap, right
\* after a swap exchanged them
C1_Witness ==
  /\ last.op = "swap"
  /\ last.self # last.other
  /\ Tag(last.pre, last.self) = "Inline"
  /\ Tag(last.pre, last.other) = "Heap"
  /\ Tag(Now, last.self) = "Heap"
  /\ Tag(Now, last.other) = "Inline"

----------------------------------------------------------------------------
(* C2 *)

\* C2: after move construction w2(std::move(w)), whatever the state of w was,
\* bool(w) is false and w2 holds the payload w held before (none if w was
\* empty), alive and not moved from, so invoking w2 gives what invoking w gave.
C2_MoveConstruct ==
  last.op = "move_construct" =>
    LET w2 == last.self
        w == last.other
    IN /\ ~bool(Now, w)
       /\ Payload(Now, w2) = Payload(last.pre, w)
       /\ Holding(last.pre, w) =>
            /\ bool(Now, w2)
            /\ ValidHandle(Now, w2)
            /\ invoke(Now, w2) = invoke(last.pre, w)
       /\ ~Holding(last.pre, w) => ~bool(Now, w2)

\* a move construction from a wrapper with an inline payload has happened
C2_Witness ==
  /\ last.op = "move_construct"
  /\ Tag(last.pre, last.other) = "Inline"
  /\ Tag(Now, last.self) = "Inline"
  /\ invoke(Now, last.self) = 7

----------------------------------------------------------------------------
(* C3 *)

\* C3: after a.swap(b), a # b, both holding a payload before (in any of the
\* four storage combinations), a holds b's former payload and b holds a's,
\* both alive, and invoking each gives the other's former result.
C3_SwapExchanges ==
  ( /\ last.op = "swap"
    /\ last.self # last.other
    /\ Holding(last.pre, last.self)
    /\ Holding(last.pre, last.other) ) =>
    LET a == last.self
        b == last.other
    IN /\ Payload(Now, a) = Payload(last.pre, b)
       /\ Payload(Now, b) = Payload(last.pre, a)
       /\ ValidHandle(Now, a)
       /\ ValidHandle(Now, b)
       /\ invoke(Now, a) = invoke(last.pre, b)
       /\ invoke(Now, b) = invoke(last.pre, a)

\* a swap of an inline payload returning 42 with a heap payload returning 7
C3_Witness ==
  /\ last.op = "swap"
  /\ Tag(last.pre, last.self) = "Inline"
  /\ Tag(last.pre, last.other) = "Heap"
  /\ invoke(last.pre, last.self) = 42
  /\ invoke(last.pre, last.other) = 7
  /\ invoke(Now, last.self) = 7
  /\ invoke(Now, last.other) = 42

----------------------------------------------------------------------------
(* C4 *)

\* C4: when w = f throws because the constructor of the new payload throws, w
\* still has the handle it had, the object behind it is untouched (no
\* destructor and no relocation ran on it, memory is as before), and invoking
\* w gives the previous payload's result.
C4_AssignStrongGuarantee ==
  (last.op = "assign_from" /\ last.thrown = "ctor") =>
    LET w == last.self
        old == last.pre.callable[w]
    IN /\ callable[w] = old
       /\ mem = last.pre.mem
       /\ CountEv("dtor", old) = 0
       /\ CountEv("move_to", old) = 0
       /\ Payload(Now, w) = Payload(last.pre, w)
       /\ Holding(last.pre, w) =>
            /\ bool(Now, w)
            /\ ValidHandle(Now, w)
            /\ invoke(Now, w) = invoke(last.pre, w)

\* an assignment to a wrapper holding a heap payload threw in the new
\* payload's constructor
C4_Witness ==
  /\ last.op = "assign_from"
  /\ last.thrown = "ctor"
  /\ Tag(last.pre, last.self) = "Heap"
  /\ invoke(Now, last.self) = 7

----------------------------------------------------------------------------
(* C5 *)

\* C5: no destructor ever runs on storage without a live object (never twice),
\* no object is constructed over a live one (which would never be destroyed),
\* every object in memory is owned by a live wrapper whose destructor will
\* destroy it, temporaries (temp_buffer, tmp) are gone when a call returns,
\* and once every wrapper is destroyed no payload object is left (never zero
\* times).
C5_DestroyedExactlyOnce ==
  /\ ub \cap {"dangling_call", "bad_delete", "overwrite_live"} = {}
  /\ mem[temp_buffer] = NoObj
  /\ mem[Buf(TMP)] = NoObj
  /\ callable[TMP] = NULL
  /\ \A a \in ObjAddrs :
       mem[a].impl # "none" => \E w \in AliveWrappers : callable[w] = a
  /\ AliveWrappers = {} => \A a \in ObjAddrs : mem[a] = NoObj

\* the last wrapper has just been destroyed, and with it an inline payload
C5_Witness ==
  /\ last.op = "destroy"
  /\ AliveWrappers = {}
  /\ Tag(last.pre, last.self) = "Inline"
  /\ CountEv("dtor", Buf(last.self)) = 1

----------------------------------------------------------------------------
(* C6 *)

\* C6: after a move construction, move assignment or swap each operand is
\* empty or holds a live payload, its own former one or the other operand's;
\* and in every state the handle of a non-empty wrapper leads to a live object
\* that has not been moved from, in memory that has not been freed.
C6_NoDanglingHandle ==
  /\ \A w \in AliveWrappers : Holding(Now, w) => ValidHandle(Now, w)
  /\ last.op \in {"move_construct", "move_assign", "swap"} =>
       \A x \in {last.self, last.other} :
         \/ ~Holding(Now, x)
         \/ /\ ValidHandle(Now, x)
            /\ Payload(Now, x) \in
                 {Payload(last.pre, last.self), Payload(last.pre, last.other)}

\* a move assignment from an inline source to a distinct target has happened
C6_Witness ==
  /\ last.op = "move_assign"
  /\ last.self # last.other
  /\ Tag(last.pre, last.other) = "Inline"
  /\ Tag(Now, last.self) = "Inline"
  /\ Tag(Now, last.other) = "Empty"

----------------------------------------------------------------------------
(* C7, C8 *)

\* the three conditions of inline eligibility, read off the callable's type
TooLarge(c) == impl_size(CallableType(c)) > buffer_size
OverAligned(c) == impl_align(CallableType(c)) > buffer_align
ThrowingMove(c) == ~CallableType(c).nothrow_move
InlineEligible(c) == ~TooLarge(c) /\ ~OverAligned(c) /\ ~ThrowingMove(c)

\* C7: a successful construction from a callable that is too large,
\* over-aligned or has a throwing move makes exactly one call of operator new
\* and none of operator delete; destroying a wrapper that holds such a payload
\* makes exactly one call of operator delete, on the payload's block, and none
\* of operator new.
C7_HeapOneAllocOneFree ==
  /\ ( /\ last.op = "construct_from"
       /\ last.thrown = "none"
       /\ ~InlineEligible(last.c) ) =>
       /\ allocation_count = last.pre.allocation_count + 1
       /\ deallocation_count = last.pre.deallocation_count
       /\ CountAll("alloc") = 1
       /\ callable[last.self] \in heap \ last.pre.heap
  /\ ( /\ last.op = "destroy"
       /\ Holding(last.pre, last.self)
       /\ ~InlineEligible(Payload(last.pre, last.self)) ) =>
       /\ deallocation_count = last.pre.deallocation_count + 1
       /\ allocation_count = last.pre.allocation_count
       /\ CountEv("free", last.pre.callable[last.self]) = 1
       /\ heap = last.pre.heap \ {last.pre.callable[last.self]}

\* a wrapper holding a payload with a throwing move constructor has been
\* destroyed
C7_Witness ==
  /\ last.op = "destroy"
  /\ Holding(last.pre, last.self)
  /\ ThrowingMove(Payload(last.pre, last.self))
  /\ deallocation_count = last.pre.deallocation_count + 1

\* C8: a successful construction from an inline-eligible callable calls
\* neither operator new nor operator delete, and so does destroying a wrapper
\* that holds such a payload.
C8_InlineNoAllocNoFree ==
  /\ ( /\ last.op = "construct_from"
       /\ last.thrown = "none"
       /\ InlineEligible(last.c) ) =>
       /\ allocation_count = last.pre.allocation_count
       /\ deallocation_count = last.pre.deallocation_count
       /\ CountAll("alloc") = 0
       /\ heap = last.pre.heap
  /\ ( /\ last.op = "destroy"
       /\ Holding(last.pre, last.self)
       /\ InlineEligible(Payload(last.pre, last.self)) ) =>
       /\ allocation_count = last.pre.allocation_count
       /\ deallocation_count = last.pre.deallocation_count
       /\ CountAll("free") = 0
       /\ heap = last.pre.heap

\* a wrapper has been constructed from a callable whose erased size is exactly
\* buffer_size
C8_Witness ==
  /\ last.op = "construct_from"
  /\ last.thrown = "none"
  /\ impl_size(CallableType(last.c)) = buffer_size
  /\ Tag(Now, last.self) = "Inline"

----------------------------------------------------------------------------
(* C9 *)

\* wrappers whose handle is in the heap state: not null and not into the
\* wrapper's own buffer
HeapWrappers == { w \in AliveWrappers : Holding(Now, w) /\ callable[w] # Buf(w) }

\* C9: between operations the blocks allocated and not yet freed are exactly
\* the blocks the heap-state wrappers point to, one each, and their number is
\* allocation_count - deallocation_count; no delete hit a block that was not
\* allocated; so once every wrapper is destroyed allocation_count equals
\* deallocation_count.
C9_HeapBlocksMatchWrappers ==
  /\ Cardinality(heap) = Cardinality(HeapWrappers)
  /\ heap = { callable[w] : w \in HeapWrappers }
  /\ allocation_count - deallocation_count = Cardinality(heap)
  /\ "bad_delete" \notin ub
  /\ AliveWrappers = {} => allocation_count = deallocation_count

\* every wrapper is destroyed after two heap allocations
C9_Witness ==
  /\ last.op = "destroy"
  /\ AliveWrappers = {}
  /\ allocation_count = 2
  /\ deallocation_count = 2
  /\ CountAll("free") = 1

----------------------------------------------------------------------------
(* C10 *)

\* an event that transfers a payload into move assignment's target t
IsTransfer(e, t) == e.ev = "move_to" \/ (e.ev = "set" /\ e.a = t /\ e.b # NULL)

\* C10: in t = std::move(s), t # s, for every pair of states: the previous
\* payload of t, if any, has its destructor run exactly once (and its block
\* freed exactly once if it was on the heap), before any step that transfers
\* s's payload; nothing else is destroyed but the object s's inline payload
\* was relocated out of; afterwards t holds s's former payload and s is empty.
C10_MoveAssign ==
  (last.op = "move_assign" /\ last.self # last.other) =>
    LET t == last.self
        s == last.other
        old == last.pre.callable[t]
        log == last.log
    IN /\ Holding(last.pre, t) =>
            /\ CountEv("dtor", old) = 1
            /\ \A i, j \in DOMAIN log :
                 (log[i].ev \in {"dtor", "free"} /\ log[i].a = old
                    /\ IsTransfer(log[j], t)) => i < j
       /\ Tag(last.pre, t) = "Heap" => CountEv("free", old) = 1 /\ old \notin heap
       /\ CountAll("free") = (IF Tag(last.pre, t) = "Heap" THEN 1 ELSE 0)
       /\ CountAll("dtor") = (IF Holding(last.pre, t) THEN 1 ELSE 0)
                             + (IF Tag(last.pre, s) = "Inline" THEN 1 ELSE 0)
       /\ Payload(Now, t) = Payload(last.pre, s)
       /\ Holding(last.pre, s) => ValidHandle(Now, t)
       /\ ~Holding(Now, s)

\* a move assignment replaced a heap payload of t by s's inline payload
C10_Witness ==
  /\ last.op = "move_assign"
  /\ Tag(last.pre, last.self) = "Heap"
  /\ Tag(last.pre, last.other) = "Inline"
  /\ Tag(Now, last.self) = "Inline"
  /\ CountAll("free") = 1

----------------------------------------------------------------------------
(* C11 *)

\* C11: a call of an empty wrapper ends the program by a failed assertion: no
\* value comes back to the caller and no virtual call goes through the null
\* handle.
C11_EmptyInvokeFailsLoudly ==
  (last.op = "invoke" /\ ~Holding(last.pre, last.self)) =>
    /\ last.thrown = "abort"
    /\ "null_call" \notin ub

----------------------------------------------------------------------------
(* C12, C13 *)

\* the last call ran no step at all and left handles, memory, heap and
\* counters as they were
NothingHappened ==
  /\ last.log = <<>>
  /\ last.thrown = "none"
  /\ callable = last.pre.callable
  /\ mem = last.pre.mem
  /\ heap = last.pre.heap
  /\ allocation_count = last.pre.allocation_count
  /\ deallocation_count = last.pre.deallocation_count
  /\ alive = last.pre.alive

\* C12: w = std::move(w) on a non-empty wrapper, inline or heap, destroys
\* nothing and relocates nothing, leaves the storage state as it was, and w
\* is still invocable with the result it gave before.
C12_SelfMoveAssignNoOp ==
  ( /\ last.op = "move_assign"
    /\ last.self = last.other
    /\ Holding(last.pre, last.self) ) =>
    /\ NothingHappened
    /\ Tag(Now, last.self) = Tag(last.pre, last.self)
    /\ bool(Now, last.self)
    /\ ValidHandle(Now, last.self)
    /\ invoke(Now, last.self) = invoke(last.pre, last.self)

\* a self-move-assignment of a wrapper with a heap payload has happened
C12_Witness ==
  /\ last.op = "move_assign"
  /\ last.self = last.other
  /\ Tag(last.pre, last.self) = "Heap"
  /\ Tag(Now, last.self) = "Heap"

\* C13: w.swap(w) in every state of w relocates nothing, destroys nothing,
\* allocates nothing and leaves w as it was; a non-empty w is still invocable
\* with the result it gave before.
C13_SelfSwapNoOp ==
  (last.op = "swap" /\ last.self = last.other) =>
    /\ NothingHappened
    /\ Tag(Now, last.self) = Tag(last.pre, last.self)
    /\ Payload(Now, last.self) = Payload(last.pre, last.self)
    /\ Holding(last.pre, last.self) =>
         /\ ValidHandle(Now, last.self)
         /\ invoke(Now, last.self) = invoke(last.pre, last.self)

\* a self-swap of a wrapper with an inline payload has happened
C13_Witness ==
  /\ last.op = "swap"
  /\ last.self = last.other
  /\ Tag(last.pre, last.self) = "Inline"
  /\ invoke(Now, last.self) = 42

----------------------------------------------------------------------------
(* C14 *)

\* the erased object: the dispatch pointer first, then the callable at the
\* first offset its alignment allows, the whole padded to the alignment of
\* the object
ErasedAlign(T) == IF T.align > PtrSize THEN T.align ELSE PtrSize
ErasedSize(T) ==
  LET offset == CHOOSE o \in PtrSize..(PtrSize + T.align) :
                  /\ o % T.align = 0
                  /\ \A k \in PtrSize..(o - 1) : k % T.align # 0
      end == offset + T.size
  IN CHOOSE n \in end..(end + ErasedAlign(T)) :
       /\ n % ErasedAlign(T) = 0
       /\ \A k \in end..(n - 1) : k % ErasedAlign(T) # 0

\* B = 3 machine words, A = the platform's maximum fundamental alignment
CapacityB == 3 * PtrSize
AlignmentA == buffer_align

\* C14: the classifier's value is true iff the erased size is at most B, the
\* alignment at most A and the move constructor non-throwing; erased size
\* exactly B is eligible, and over-alignment or a throwing move disqualify a
\* type whose size fits.
C14_ClassifierIffThreeConditions ==
  soo.instantiated =>
    /\ soo.value <=> ( /\ ErasedSize(soo.T) <= CapacityB
                       /\ soo.T.align <= AlignmentA
                       /\ soo.T.nothrow_move )
    /\ ( /\ ErasedSize(soo.T) = CapacityB
         /\ soo.T.align <= AlignmentA
         /\ soo.T.nothrow_move ) => soo.value
    /\ (ErasedSize(soo.T) <= CapacityB /\ ~soo.T.nothrow_move) => ~soo.value
    /\ (soo.T.size <= CapacityB /\ soo.T.align > AlignmentA) => ~soo.value

\* a type whose erased size is exactly B has been classified eligible
C14_Witness ==
  /\ soo.instantiated
  /\ ErasedSize(soo.T) = CapacityB
  /\ soo.T.size = 2 * PtrSize
  /\ soo.T.nothrow_move
  /\ soo.value

----------------------------------------------------------------------------
(* C15, C16, C17 *)

\* C15: a wrapper that holds a payload is in the inline state iff the
\* payload's type is inline-eligible, whichever operations brought the payload
\* to the wrapper.
C15_InlineIffEligible ==
  \A w \in AliveWrappers :
    Holding(Now, w) =>
      /\ Payload(Now, w) \in Callables
      /\ Tag(Now, w) = "Inline" <=> InlineEligible(Payload(Now, w))
      /\ Tag(Now, w) = "Heap" <=> ~InlineEligible(Payload(Now, w))

\* a move construction has taken a heap payload and the new wrapper holds it
\* on the heap
C15_Witness ==
  /\ last.op = "move_construct"
  /\ Tag(last.pre, last.other) = "Heap"
  /\ Tag(Now, last.self) = "Heap"
  /\ ~InlineEligible(Payload(Now, last.self))

\* C16: each wrapper's handle is empty, inline or heap, and an inline handle
\* points at a live payload in that wrapper's own buffer, never into another
\* wrapper's buffer or the temporary of swap.
C16_ThreeStates ==
  \A w \in AliveWrappers :
    /\ Tag(Now, w) \in {"Empty", "Inline", "Heap"}
    /\ callable[w] # temp_buffer
    /\ \A x \in AllWrappers \ {w} : callable[w] # Buf(x)
    /\ is_inline(Now, w) =>
         /\ callable[w] = Buf(w)
         /\ LiveAt(Now, Buf(w))
         /\ mem[Buf(w)].impl = "inline"

\* a swap of two inline wrappers has happened and both are inline again
C16_Witness ==
  /\ last.op = "swap"
  /\ last.self # last.other
  /\ Tag(last.pre, last.self) = "Inline"
  /\ Tag(last.pre, last.other) = "Inline"
  /\ is_inline(Now, last.self)
  /\ is_inline(Now, last.other)

\* during the last call the object in the buffer of x was destroyed before the
\* handle of x was set to a heap address
DestroyedBeforeHeap(x) ==
  \E i, j \in DOMAIN last.log :
    /\ i < j
    /\ last.log[i] = Event("dtor", Buf(x), 0)
    /\ last.log[j].ev = "set"
    /\ last.log[j].a = x
    /\ last.log[j].b \in HeapAddrs

\* C17: a wrapper in the heap state has no live object in its inline buffer;
\* an operation that turns an inline wrapper into a heap wrapper has destroyed
\* the buffer's former object first.
C17_HeapBufferVacant ==
  /\ \A w \in AliveWrappers : Tag(Now, w) = "Heap" => mem[Buf(w)] = NoObj
  /\ \A x \in {last.self, last.other} \cap Wrappers :
       (Tag(last.pre, x) = "Inline" /\ Tag(Now, x) = "Heap") =>
         /\ DestroyedBeforeHeap(x)
         /\ CountEv("dtor", Buf(x)) = 1

\* a move assignment has put a heap payload into a wrapper that was inline
C17_Witness ==
  /\ last.op = "move_assign"
  /\ Tag(last.pre, last.self) = "Inline"
  /\ Tag(last.pre, last.other) = "Heap"
  /\ Tag(Now, last.self) = "Heap"
  /\ mem[Buf(last.self)] = NoObj

----------------------------------------------------------------------------
(* C18, C19 *)

\* C18: swap makes no call of operator new and none of operator delete, in
\* every combination of storage states of its operands.
C18_SwapNoAllocNoFree ==
  last.op = "swap" =>
    /\ allocation_count = last.pre.allocation_count
    /\ deallocation_count = last.pre.deallocation_count
    /\ heap = last.pre.heap
    /\ CountAll("alloc") = 0
    /\ CountAll("free") = 0

\* a swap of two heap wrappers has exchanged their blocks
C18_Witness ==
  /\ last.op = "swap"
  /\ Tag(last.pre, last.self) = "Heap"
  /\ Tag(last.pre, last.other) = "Heap"
  /\ callable[last.self] = last.pre.callable[last.other]
  /\ callable[last.other] = last.pre.callable[last.self]
  /\ last.self # last.other

\* C19: move construction and move assignment make no call of operator new;
\* only construction from a callable and assignment from a callable do.
C19_MovesDoNotAllocate ==
  /\ last.op \in {"move_construct", "move_assign"} =>
       /\ allocation_count = last.pre.allocation_count
       /\ CountAll("alloc") = 0
       /\ heap \subseteq last.pre.heap
  /\ (allocation_count # last.pre.allocation_count \/ CountAll("alloc") > 0) =>
       last.op \in {"construct_from", "assign_from"}

\* a move assignment from a heap wrapper onto a heap wrapper has happened
C19_Witness ==
  /\ last.op = "move_assign"
  /\ last.self # last.other
  /\ Tag(last.pre, last.self) = "Heap"
  /\ Tag(last.pre, last.other) = "Heap"
  /\ Tag(Now, last.self) = "Heap"
  /\ allocation_count = last.pre.allocation_count

----------------------------------------------------------------------------
(* C20 *)

\* C20: w = nullptr leaves w empty after destroying its payload exactly once,
\* freeing the block of a heap payload; reset applied to an empty wrapper
\* changes nothing, destroys nothing and frees nothing, so a second reset
\* after a first changes nothing.
C20_AssignNullAndResetIdempotent ==
  /\ last.op = "assign_null" =>
       /\ ~Holding(Now, last.self)
       /\ ~bool(Now, last.self)
       /\ Holding(last.pre, last.self) =>
            /\ CountEv("dtor", last.pre.callable[last.self]) = 1
            /\ CountAll("dtor") = 1
            /\ mem[last.pre.callable[last.self]] = NoObj
            /\ Tag(last.pre, last.self) = "Heap" =>
                 /\ CountEv("free", last.pre.callable[last.self]) = 1
                 /\ CountAll("free") = 1
                 /\ deallocation_count = last.pre.deallocation_count + 1
                 /\ last.pre.callable[last.self] \notin heap
            /\ Tag(last.pre, last.self) = "Inline" =>
                 /\ CountAll("free") = 0
                 /\ deallocation_count = last.pre.deallocation_count
       /\ ~Holding(last.pre, last.self) => NothingHappened
  /\ \A w \in AliveWrappers :
       /\ ~Holding(Now, w) => reset(Cur, w) = Cur
       /\ LET once == reset(Cur, w)
          IN reset([once EXCEPT !.log = <<>>], w) = [once EXCEPT !.log = <<>>]

\* w = nullptr has been applied to a wrapper with a heap payload
C20_Witness ==
  /\ last.op = "assign_null"
  /\ Tag(last.pre, last.self) = "Heap"
  /\ ~Holding(Now, last.self)
  /\ deallocation_count = last.pre.deallocation_count + 1

----------------------------------------------------------------------------
(* C21 *)

\* wrapper w has a payload: a live object in its own buffer, or a live object
\* in an allocated heap block its handle names
HasPayload(P, w) ==
  \/ LiveAt(P, Buf(w))
  \/ \E a \in P.heap : P.callable[w] = a /\ LiveAt(P, a)

\* C21: bool(w) is true iff w holds a payload; a wrapper just default
\* constructed or constructed from nullptr is false, and so is a wrapper that
\* has just been moved from or assigned nullptr.
C21_BoolIffPayload ==
  /\ \A w \in AliveWrappers : bool(Now, w) <=> HasPayload(Now, w)
  /\ last.op \in {"default_construct", "nullptr_construct", "assign_null"} =>
       /\ ~bool(Now, last.self)
       /\ ~HasPayload(Now, last.self)
  /\ (last.op \in {"move_construct", "move_assign"} /\ last.self # last.other) =>
       /\ ~bool(Now, last.other)
       /\ ~HasPayload(Now, last.other)
       /\ bool(Now, last.self) <=> bool(last.pre, last.other)

\* a wrapper with a heap payload has been moved from: it is false and the new
\* wrapper is true
C21_Witness ==
  /\ last.op = "move_construct"
  /\ Tag(last.pre, last.other) = "Heap"
  /\ bool(last.pre, last.other)
  /\ ~bool(Now, last.other)
  /\ bool(Now, last.self)

----------------------------------------------------------------------------
(* C22, C23 *)

\* the last call left handles, memory, heap and counters as they were
StateUnchanged ==
  /\ callable = last.pre.callable
  /\ mem = last.pre.mem
  /\ heap = last.pre.heap
  /\ allocation_count = last.pre.allocation_count
  /\ deallocation_count = last.pre.deallocation_count
  /\ alive = last.pre.alive

\* C22: a call of a non-empty wrapper whose callable returns runs the held
\* callable exactly once, with the arguments of the call, and returns its
\* result, whether the payload is inline or on the heap; with a void signature
\* the callable is run all the same and nothing is returned; the owner and the
\* storage state do not change.
C22_InvokeForwardsOnce ==
  ( /\ last.op = "invoke"
    /\ Holding(last.pre, last.self)
    /\ last.input.outcome = "return" ) =>
    /\ last.thrown = "none"
    /\ CountAll("call") = 1
    /\ \E i \in DOMAIN last.log :
         last.log[i] = Event("call", Payload(last.pre, last.self), last.input.arg)
    /\ last.result = IF last.input.void_R THEN <<>>
                     ELSE <<func_call(Payload(last.pre, last.self), last.input.arg)>>
    /\ StateUnchanged
    /\ Tag(Now, last.self) = Tag(last.pre, last.self)
    /\ Payload(Now, last.self) = Payload(last.pre, last.self)

\* a wrapper of a void signature with a heap payload has been called with the
\* second argument value
C22_Witness ==
  /\ last.op = "invoke"
  /\ Tag(last.pre, last.self) = "Heap"
  /\ last.input = [arg |-> 2, void_R |-> TRUE, outcome |-> "return"]
  /\ CountAll("call") = 1
  /\ last.result = <<>>

\* C23: when the held callable throws, the caller of operator() gets that
\* exception and no other, and the wrapper is non-empty afterwards with the
\* same payload in the same storage state.
C23_CallableThrowPropagates ==
  ( /\ last.op = "invoke"
    /\ Holding(last.pre, last.self)
    /\ last.input.outcome = "throw" ) =>
    /\ last.thrown = "callable"
    /\ last.result = <<>>
    /\ CountAll("call") = 1
    /\ StateUnchanged
    /\ bool(Now, last.self)
    /\ ValidHandle(Now, last.self)
    /\ Tag(Now, last.self) = Tag(last.pre, last.self)
    /\ Payload(Now, last.self) = Payload(last.pre, last.self)

\* the callable of an inline wrapper has thrown during a call
C23_Witness ==
  /\ last.op = "invoke"
  /\ Tag(last.pre, last.self) = "Inline"
  /\ last.input.outcome = "throw"
  /\ last.thrown = "callable"
  /\ Tag(Now, last.self) = "Inline"

----------------------------------------------------------------------------
(* C24 *)

\* C24: when operator new fails on the heap path of a construction, the
\* caller gets the allocation failure, nothing is retried, no wrapper owns a
\* payload or a block on account of the failed construction, and the target
\* of an assignment from a callable keeps its previous payload.
C24_AllocationFailurePropagates ==
  ( /\ last.op \in {"construct_from", "assign_from"}
    /\ last.input.outcome = "bad_alloc" ) =>
    /\ last.thrown = "bad_alloc"
    /\ last.log = <<>>
    /\ StateUnchanged
    /\ ~Holding(Now, TMP)
    /\ HeapWrappers = { w \in Wrappers : last.pre.alive[w] /\ Tag(last.pre, w) = "Heap" }
    /\ last.op = "construct_from" =>
         /\ ~alive[last.self]
         /\ ~Holding(Now, last.self)
         /\ ~HasPayload(Now, last.self)
    /\ last.op = "assign_from" =>
         /\ Payload(Now, last.self) = Payload(last.pre, last.self)
         /\ Tag(Now, last.self) = Tag(last.pre, last.self)
         /\ Holding(last.pre, last.self) =>
              /\ ValidHandle(Now, last.self)
              /\ invoke(Now, last.self) = invoke(last.pre, last.self)

\* operator new has failed in an assignment of a heap-bound callable to a
\* wrapper that holds an inline payload
C24_Witness ==
  /\ last.op = "assign_from"
  /\ last.input.outcome = "bad_alloc"
  /\ last.thrown = "bad_alloc"
  /\ Tag(last.pre, last.self) = "Inline"
  /\ Tag(Now, last.self) = "Inline"

----------------------------------------------------------------------------
(* C25 *)

\* the state the member functions work on, as it was when the last call began
PreState ==
  [ callable |-> last.pre.callable, mem |-> last.pre.mem, heap |-> last.pre.heap,
    allocation_count |-> last.pre.allocation_count,
    deallocation_count |-> last.pre.deallocation_count,
    ub |-> {}, log |-> <<>>, thrown |-> "none", result |-> <<>>, input |-> NoInput ]

\* C25: a.swap(b) (which swap(a, b) calls) and b.swap(a) from the same state
\* end in the same state: the same payload in each wrapper, in the same
\* storage state, the same memory and the same heap.
C25_SwapSymmetric ==
  last.op = "swap" =>
    LET a == last.self
        b == last.other
        reversed == swap(PreState, b, a)
    IN /\ callable = reversed.callable
       /\ mem = reversed.mem
       /\ heap = reversed.heap
       /\ allocation_count = reversed.allocation_count
       /\ deallocation_count = reversed.deallocation_count
       /\ ub = reversed.ub
       /\ \A x \in {a, b} :
            /\ Tag(Now, x) = Tag(reversed, x)
            /\ Payload(Now, x) = Payload(reversed, x)

\* a heap wrapper has been swapped with an inline wrapper
C25_Witness ==
  /\ last.op = "swap"
  /\ last.self # last.other
  /\ Tag(last.pre, last.self) = "Heap"
  /\ Tag(last.pre, last.other) = "Inline"
  /\ Tag(Now, last.self) = "Inline"

----------------------------------------------------------------------------
(* C26 *)

\* every relocation of the last call is followed by the destruction of the
\* object relocated out, with nothing in between but the construction at the
\* destination and the store of a handle
DestroyedRightAfterRelocation ==
  \A i \in DOMAIN last.log :
    last.log[i].ev = "move_to" =>
      \E j \in (i + 1)..Len(last.log) :
        /\ last.log[j] = Event("dtor", last.log[i].a, 0)
        /\ \A k \in (i + 1)..(j - 1) :
             \/ k = i + 1 /\ last.log[k] = Event("ctor", last.log[i].b, 0)
             \/ last.log[k].ev = "set"

\* every construction of the last call happened at an address whose previous
\* object, from before the call or constructed during it, had been destroyed
ConstructedOnVacantStorage ==
  \A k \in DOMAIN last.log :
    last.log[k].ev = "ctor" =>
      \A m \in 0..(k - 1) :
        ( \/ m = 0 /\ last.pre.mem[last.log[k].a].impl # "none"
          \/ m > 0 /\ last.log[m] = Event("ctor", last.log[k].a, 0) ) =>
          \E d \in (m + 1)..(k - 1) : last.log[d] = Event("dtor", last.log[k].a, 0)

\* C26: in move construction, move assignment and swap an inline object that
\* has been relocated out is destroyed right after the relocation, before any
\* later relocation or dispatch call, and no relocation constructs into a
\* buffer that holds an object not yet destroyed.
C26_RelocateThenDestroy ==
  last.op \in {"move_construct", "move_assign", "swap"} =>
    /\ DestroyedRightAfterRelocation
    /\ ConstructedOnVacantStorage
    /\ "overwrite_live" \notin ub
    /\ "dangling_call" \notin ub
    /\ CountAll("move_to") = CountAll("ctor")

\* a swap of two inline wrappers has made its three relocations
C26_Witness ==
  /\ last.op = "swap"
  /\ CountAll("move_to") = 3
  /\ CountEv("dtor", temp_buffer) = 1
  /\ CountEv("ctor", Buf(last.self)) = 1
  /\ CountEv("dtor", Buf(last.self)) = 1

----------------------------------------------------------------------------
(* C27 *)

\* C27: a swap of two distinct wrappers of which at least one is empty hands
\* the payload, if there is one, to the wrapper that was empty; the other ends
\* empty with no object in its buffer; the payload is still alive and gives
\* the result it gave; nothing is allocated or freed.
C27_SwapWithEmpty ==
  ( /\ last.op = "swap"
    /\ last.self # last.other
    /\ ~Holding(last.pre, last.self) \/ ~Holding(last.pre, last.other) ) =>
    LET a == last.self
        b == last.other
    IN /\ Payload(Now, a) = Payload(last.pre, b)
       /\ Payload(Now, b) = Payload(last.pre, a)
       /\ Tag(Now, a) = Tag(last.pre, b)
       /\ Tag(Now, b) = Tag(last.pre, a)
       /\ \A x \in {a, b} :
            /\ Holding(Now, x) =>
                 /\ ValidHandle(Now, x)
                 /\ invoke(Now, x) = CallableType(Payload(Now, x)).ret
            /\ ~Holding(Now, x) => mem[Buf(x)] = NoObj
       /\ \A x \in {a, b} :
            Tag(last.pre, x) = "Heap" =>
              /\ last.pre.callable[x] \in {callable[a], callable[b]}
              /\ mem[last.pre.callable[x]] = last.pre.mem[last.pre.callable[x]]
              /\ CountAll("dtor") = 0
       /\ \A x \in {a, b} :
            Tag(last.pre, x) = "Inline" =>
              /\ CountAll("move_to") = 1
              /\ CountAll("dtor") = 1
              /\ CountEv("dtor", Buf(x)) = 1
       /\ heap = last.pre.heap
       /\ allocation_count = last.pre.allocation_count
       /\ deallocation_count = last.pre.deallocation_count
       /\ CountAll("alloc") = 0
       /\ CountAll("free") = 0
       /\ ub = {}

\* an empty wrapper has been swapped with an inline wrapper and now holds the
\* payload
C27_Witness ==
  /\ last.op = "swap"
  /\ Tag(last.pre, last.self) = "Empty"
  /\ Tag(last.pre, last.other) = "Inline"
  /\ Tag(Now, last.self) = "Inline"
  /\ Tag(Now, last.other) = "Empty"
  /\ mem[Buf(last.other)] = NoObj

----------------------------------------------------------------------------
(* C28 *)

\* C28 as stated: destroy(), called on a held payload, runs the payload's
\* destructor in place when the payload is inline and releases the allocation
\* when the payload is on the heap.
C28_DestroyEndsPayload ==
  last.op = "callable_destroy" =>
    LET p == last.pre.callable[last.self]
    IN /\ Tag(last.pre, last.self) = "Inline" =>
            /\ CountEv("dtor", p) = 1
            /\ mem[p] = NoObj
       /\ Tag(last.pre, last.self) = "Heap" =>
            /\ p \notin heap
            /\ deallocation_count = last.pre.deallocation_count + 1

\* C28 amended: destroy() runs the destructor in place when the payload is
\* inline and does nothing at all when the payload is on the heap; a heap
\* payload is ended by reset's delete, which runs the destructor once and
\* frees the block once.
C28_DestroyInlineOnly ==
  /\ last.op = "callable_destroy" =>
       LET p == last.pre.callable[last.self]
       IN /\ Tag(last.pre, last.self) = "Inline" =>
               /\ last.log = <<Event("dtor", p, 0)>>
               /\ mem[p] = NoObj
               /\ heap = last.pre.heap
               /\ deallocation_count = last.pre.deallocation_count
          /\ Tag(last.pre, last.self) = "Heap" =>
               /\ last.log = <<>>
               /\ StateUnchanged
               /\ LiveAt(Now, p)
               /\ p \in heap
  /\ ( /\ last.op \in {"assign_null", "destroy"}
       /\ Tag(last.pre, last.self) = "Heap"
       /\ LiveAt(last.pre, last.pre.callable[last.self]) ) =>
       LET p == last.pre.callable[last.self]
       IN /\ CountEv("dtor", p) = 1
          /\ CountEv("free", p) = 1
          /\ mem[p] = NoObj
          /\ p \notin heap
          /\ deallocation_count = last.pre.deallocation_count + 1

\* destroy() has been called on a heap payload and the payload is still there
C28_Witness ==
  /\ last.op = "callable_destroy"
  /\ Tag(last.pre, last.self) = "Heap"
  /\ LiveAt(Now, callable[last.self])
  /\ callable[last.self] \in heap

----------------------------------------------------------------------------
(* C29 *)

\* the wrappers whose payload the last call hands to another wrapper, with
\* the wrapper that receives it
Handovers ==
  IF last.self = last.other THEN {}
  ELSE IF last.op \in {"move_construct", "move_assign"}
  THEN {<<last.other, last.self>>}
  ELSE IF last.op = "swap"
  THEN {<<last.other, last.self>>, <<last.self, last.other>>}
  ELSE {}

\* C29: a heap payload changes owner by pointer only.  In move construction
\* and move assignment from a heap source, in heap/heap swap and on the heap
\* side of a mixed swap the payload object is not relocated, its block is the
\* same block afterwards, and the block is neither freed nor allocated anew.
C29_HeapPointerTransfer ==
  \A h \in Handovers :
    Tag(last.pre, h[1]) = "Heap" =>
      LET p == last.pre.callable[h[1]]
      IN /\ callable[h[2]] = p
         /\ callable[h[1]] # p
         /\ mem[p] = last.pre.mem[p]
         /\ p \in heap
         /\ \A i \in DOMAIN last.log :
              /\ last.log[i].ev \in {"move_to", "ctor", "dtor", "free", "alloc"} =>
                   last.log[i].a # p
              /\ last.log[i].ev = "move_to" => last.log[i].b # p
         /\ CountAll("alloc") = 0
         /\ allocation_count = last.pre.allocation_count

\* a move assignment has handed a heap payload to an empty wrapper
C29_Witness ==
  /\ last.op = "move_assign"
  /\ Tag(last.pre, last.self) = "Empty"
  /\ Tag(last.pre, last.other) = "Heap"
  /\ callable[last.self] = last.pre.callable[last.other]
  /\ callable[last.other] = NULL

----------------------------------------------------------------------------
(* C30 *)

\* the addresses of inline storage: the wrappers' buffers and swap's temporary
InlineAddrs == BufAddrs \cup {temp_buffer}

\* C30: move construction, move assignment and swap raise no exception in any
\* combination of storage states: every relocation in them is applied to an
\* object in inline storage, and no callable whose move constructor may throw
\* is ever in inline storage.
C30_MovesAndSwapNoThrow ==
  /\ \A a \in InlineAddrs :
       mem[a].impl # "none" =>
         /\ mem[a].impl = "inline"
         /\ CallableType(mem[a].c).nothrow_move
  /\ \A w \in AliveWrappers :
       (Holding(Now, w) /\ ThrowingMove(Payload(Now, w))) => Tag(Now, w) = "Heap"
  /\ last.op \in {"move_construct", "move_assign", "swap"} =>
       /\ last.thrown = "none"
       /\ \A i \in DOMAIN last.log :
            last.log[i].ev = "move_to" =>
              /\ last.log[i].a \in InlineAddrs
              /\ last.log[i].b \in InlineAddrs
       /\ \A a \in InlineAddrs :
            last.pre.mem[a].impl # "none" =>
              CallableType(last.pre.mem[a].c).nothrow_move

\* a wrapper holding the callable with the throwing move constructor has been
\* swapped with an inline wrapper, and no exception came of it
C30_Witness ==
  /\ last.op = "swap"
  /\ last.thrown = "none"
  /\ \E x \in {last.self, last.other} :
       /\ Holding(last.pre, x)
       /\ ThrowingMove(Payload(last.pre, x))
  /\ \E x \in {last.self, last.other} : Tag(last.pre, x) = "Inline"
  /\ CountAll("move_to") = 1

----------------------------------------------------------------------------
(* C31 *)

\* where the payload that was at address a when the last call began is after
\* the first i events of the call: it follows the relocations out of its place
RECURSIVE Whereabouts(_, _)
Whereabouts(a, i) ==
  IF i = 0 THEN a
  ELSE LET p == Whereabouts(a, i - 1)
       IN IF last.log[i].ev = "move_to" /\ last.log[i].a = p
          THEN last.log[i].b
          ELSE p

\* the events of the last call that destroy the payload that was at address a
\* (and not a moved-from object it left behind)
EndsOf(a) ==
  { i \in DOMAIN last.log :
      last.log[i].ev = "dtor" /\ last.log[i].a = Whereabouts(a, i - 1) }

\* the events of the last call that construct an object from the client's
\* callable, not by relocation
BuiltFromCallable ==
  { i \in DOMAIN last.log :
      /\ last.log[i].ev = "ctor"
      /\ i > 1 => last.log[i - 1].ev # "move_to" }

\* C31: after a successful w = f, whatever w held before: exactly one payload
\* was constructed from f, and no destructor, relocation or deallocation ran
\* before that construction; the payload w held before was destroyed exactly
\* once during the call (none if w was empty), its heap block freed exactly
\* once if it was on the heap and nothing freed otherwise; and w holds the new
\* payload, alive and callable.
C31_AssignBuildsThenDestroys ==
  (last.op = "assign_from" /\ last.thrown = "none") =>
    LET w == last.self
        old == last.pre.callable[w]
    IN /\ Cardinality(BuiltFromCallable) = 1
       /\ \A i \in BuiltFromCallable, j \in DOMAIN last.log :
            last.log[j].ev \in {"dtor", "free", "move_to"} => i < j
       /\ Cardinality(EndsOf(old)) = IF Holding(last.pre, w) THEN 1 ELSE 0
       /\ Holding(last.pre, w) => ~LiveAt(Now, old) \/ old = callable[w]
       /\ IF Tag(last.pre, w) = "Heap"
          THEN /\ CountEv("free", old) = 1
               /\ CountAll("free") = 1
               /\ old \notin heap
               /\ deallocation_count = last.pre.deallocation_count + 1
               /\ \A i \in EndsOf(old) : \E j \in DOMAIN last.log :
                    j > i /\ last.log[j] = Event("free", old, 0)
          ELSE /\ CountAll("free") = 0
               /\ deallocation_count = last.pre.deallocation_count
       /\ bool(Now, w)
       /\ ValidHandle(Now, w)
       /\ Payload(Now, w) = last.c
       /\ invoke(Now, w) = CallableType(last.c).ret
       /\ Tag(Now, w) = IF can_use_soo(CallableType(last.c)) THEN "Inline" ELSE "Heap"
       /\ \A i \in BuiltFromCallable :
            Whereabouts(last.log[i].a, Len(last.log)) = callable[w]

\* a wrapper holding a heap payload has been assigned an inline-eligible
\* callable of another type: the block was freed and w holds the new payload
C31_Witness ==
  /\ last.op = "assign_from"
  /\ last.thrown = "none"
  /\ Tag(last.pre, last.self) = "Heap"
  /\ Tag(Now, last.self) = "Inline"
  /\ Payload(last.pre, last.self) # last.c
  /\ Payload(Now, last.self) = last.c
  /\ CountEv("free", last.pre.callable[last.self]) = 1

----------------------------------------------------------------------------
(* C32 *)

\* the internal state of the payload wrapper w holds in P: its type, its call
\* counter, and whether its self-reference points into the object itself
InternalState(P, w) ==
  LET o == P.mem[P.callable[w]]
  IN [ c |-> o.c, call_count |-> o.call_count,
       self_reference |-> IF CallableType(o.c).kind = "self_ref"
                          THEN IF o.ptr = P.callable[w] THEN "own value"
                               ELSE IF o.ptr = NULL THEN "null" ELSE "elsewhere"
                          ELSE "none" ]

\* the pairs <<previous owner, new owner>> of the last call, a move
\* construction, a move assignment or a swap of two distinct wrappers
Relocations ==
  IF last.self = last.other THEN {}
  ELSE IF last.op \in {"move_construct", "move_assign"}
  THEN {<<last.other, last.self>>}
  ELSE IF last.op = "swap"
  THEN {<<last.other, last.self>>, <<last.self, last.other>>}
  ELSE {}

\* C32: after a move construction, a move assignment or a swap, the payload
\* of each previous owner is with its new owner with the call counter it had
\* and a self-reference that points into the object where it now lives, so
\* that a call of the new owner returns what a call of the previous owner
\* would have returned; a call of a counting payload returns one more than
\* the counter and leaves the counter at that value; and in every state the
\* self-reference of a held payload points into the payload itself.
C32_RelocationKeepsInternalState ==
  /\ \A r \in Relocations :
       Holding(last.pre, r[1]) =>
         /\ LiveAt(Now, callable[r[2]])
         /\ InternalState(Now, r[2]) = InternalState(last.pre, r[1])
         /\ func_value(Now, callable[r[2]], PlainCall.arg)
              = func_value(last.pre, last.pre.callable[r[1]], PlainCall.arg)
  /\ ( /\ last.op = "invoke"
       /\ Holding(last.pre, last.self)
       /\ last.thrown = "none" ) =>
       LET before == InternalState(last.pre, last.self)
           after == InternalState(Now, last.self)
           kind == CallableType(before.c).kind
       IN /\ "dangling_read" \notin ub
          /\ after.c = before.c
          /\ after.self_reference = before.self_reference
          /\ kind = "mutable" =>
               /\ last.result = <<before.call_count + 1>>
               /\ after.call_count = before.call_count + 1
          /\ kind = "self_ref" =>
               /\ last.result = <<CallableType(before.c).ret>>
               /\ after.call_count = before.call_count
  /\ \A w \in AliveWrappers :
       ( /\ LiveAt(Now, callable[w])
         /\ CallableType(mem[callable[w]].c).kind = "self_ref" ) =>
         InternalState(Now, w).self_reference = "own value"

\* a swap of two inline wrappers has exchanged a MutableCallable that had
\* been called and a SelfReferential
C32_Witness ==
  /\ last.op = "swap"
  /\ Tag(last.pre, last.self) = "Inline"
  /\ Tag(last.pre, last.other) = "Inline"
  /\ InternalState(last.pre, last.self).call_count > 0
  /\ InternalState(last.pre, last.other).self_reference = "own value"
  /\ InternalState(Now, last.other).call_count > 0
  /\ InternalState(Now, last.self).self_reference = "own value"
  /\ mem[callable[last.self]].ptr = Buf(last.self)

----------------------------------------------------------------------------
(* C33 *)

\* the last call left wrapper w empty in one of the ways a wrapper becomes
\* empty: default construction, construction from or assignment of nullptr,
\* taking over the state of an empty wrapper (move construction, move
\* assignment or swap), or being moved from
EmptiedBy(w) ==
  \/ last.op \in {"default_construct", "nullptr_construct", "assign_null"}
       /\ last.self = w
  \/ last.op \in {"move_construct", "move_assign"}
       /\ last.self = w /\ ~Holding(last.pre, last.other)
  \/ last.op \in {"move_construct", "move_assign"}
       /\ last.other = w /\ last.self # w
  \/ last.op = "swap" /\ last.self = w /\ ~Holding(last.pre, last.other)
  \/ last.op = "swap" /\ last.other = w /\ ~Holding(last.pre, last.self)

\* C33: a construction from a callable that returns leaves the wrapper
\* non-empty (bool is true) holding that callable, also when the callable is
\* a null function pointer or an empty std::function; and a wrapper that is
\* empty after a call that constructed it, or after a call before which it
\* held a payload, was left empty by default construction, nullptr, taking
\* over an empty wrapper's state, or being moved from.
C33_ConstructFromAlwaysHolds ==
  /\ (last.op = "construct_from" /\ last.thrown = "none") =>
       /\ alive[last.self]
       /\ bool(Now, last.self)
       /\ ValidHandle(Now, last.self)
       /\ Payload(Now, last.self) = last.c
  /\ \A w \in AliveWrappers :
       ( /\ ~bool(Now, w)
         /\ ~last.pre.alive[w] \/ Holding(last.pre, w) ) => EmptiedBy(w)

\* a wrapper has been constructed from a null function pointer and holds it
\* inline
C33_Witness ==
  /\ last.op = "construct_from"
  /\ last.thrown = "none"
  /\ CallableType(last.c).kind = "null_fp"
  /\ bool(Now, last.self)
  /\ Tag(Now, last.self) = "Inline"

----------------------------------------------------------------------------
(* C34 *)

\* the tag of wrapper w in state S, read off the payload and not off its
\* address: Empty without a payload, Inline when the payload is an
\* inline_callable_impl, which is only ever constructed in or relocated into a
\* buffer, Heap when it is a heap_callable_impl, which only operator new makes
VariantTag(S, w) ==
  IF S.callable[w] = NULL THEN "Empty"
  ELSE IF ~HasObj(S, S.callable[w]) THEN "Dangling"
  ELSE IF S.mem[S.callable[w]].impl = "inline" THEN "Inline"
  ELSE "Heap"

\* the address test and the tag say the same of wrapper w in state S, and an
\* inline payload lives in w's own buffer, a heap payload in an allocated block
TagAgrees(S, w) ==
  /\ VariantTag(S, w) \in {"Empty", "Inline", "Heap"}
  /\ is_inline(S, w) <=> VariantTag(S, w) = "Inline"
  /\ VariantTag(S, w) = "Inline" => S.callable[w] = Buf(w)
  /\ VariantTag(S, w) = "Heap" => S.callable[w] \in S.heap
  /\ VariantTag(S, w) = "Empty" => ~is_inline(S, w)

\* the states inside the last call in which a branch on callable and
\* is_inline() is taken, each with the wrapper the branch looks at; the state
\* the call began in is one of them for every call
BranchPoints ==
  IF last.op = "move_assign" /\ last.self # last.other
  THEN {<<reset(PreState, last.self), last.other>>}
  ELSE IF last.op = "assign_from" /\ last.thrown = "none"
  THEN LET S1 == construct_from(PreState, TMP, last.c, "ok")
           S2 == swap(S1, last.self, TMP)
       IN {<<S1, last.self>>, <<S1, TMP>>, <<S2, TMP>>}
  ELSE {}

\* the payload wrapper w holds after the last call came into w's buffer during
\* the call, by construction or relocation
CameIntoOwnBuffer(w) == CountEv("ctor", Buf(w)) >= 1

\* C34: in every reachable state, and in every state inside a call where
\* reset, a move or swap branches, is_inline() of a wrapper is true exactly
\* when the tag of the wrapper's payload is Inline, and false when it is
\* Empty or Heap; an inline payload lives in the wrapper's own buffer, where
\* it was constructed or relocated to, and a heap payload in an allocated
\* block.
C34_AddressTestIsTag ==
  /\ \A w \in AllWrappers : TagAgrees(Cur, w)
  /\ \A bp \in BranchPoints : TagAgrees(bp[1], bp[2])
  /\ \A w \in Wrappers :
       (is_inline(Cur, w) /\ callable[w] # last.pre.callable[w]) =>
         CameIntoOwnBuffer(w)
  /\ \A w \in Wrappers :
       VariantTag(Cur, w) \in {"Empty", "Heap"} => mem[Buf(w)] = NoObj

\* a swap has exchanged an inline and a heap payload: the wrapper that was
\* Inline is Heap and the other way round, by the tag and by the address test
C34_Witness ==
  /\ last.op = "swap"
  /\ is_inline(PreState, last.self)
  /\ VariantTag(PreState, last.other) = "Heap"
  /\ VariantTag(Cur, last.self) = "Heap"
  /\ ~is_inline(Cur, last.self)
  /\ VariantTag(Cur, last.other) = "Inline"
  /\ is_inline(Cur, last.other)

----------------------------------------------------------------------------
(* C35 *)

\* no caller is inside a member function
Quiescent == \A t \in Threads : ~Busy(t)

\* a member function has gone through a handle to an object that was
\* destroyed or moved from, or through a handle that was null by then
UsedDeadObject == ub \cap {"dangling_call", "null_call"} # {}

\* a payload has been destroyed a second time: delete of a block that is not
\* allocated any more, or a destructor run where no object lives
DestroyedTwice == "bad_delete" \in ub \/ "dangling_call" \in ub

\* with every caller outside the member functions, the handle of a wrapper
\* does not lead to a live payload, two wrappers have the same handle, or an
\* object is left that no wrapper owns
OwnershipBroken ==
  /\ Quiescent
  /\ \/ \E w \in AliveWrappers : Holding(Now, w) /\ ~ValidHandle(Now, w)
     \/ \E w1, w2 \in AliveWrappers :
          w1 # w2 /\ Holding(Now, w1) /\ callable[w1] = callable[w2]
     \/ \E a \in ObjAddrs :
          mem[a].impl # "none" /\ \A w \in AliveWrappers : callable[w] # a
     \/ heap # { callable[w] : w \in AliveWrappers } \cap HeapAddrs

\* the state a member function called as a whole leaves, from the state
\* caller t's call began in
AsWhole(t) ==
  LET S == [ callable |-> thread[t].pre.callable, mem |-> thread[t].pre.mem,
             heap |-> thread[t].pre.heap,
             allocation_count |-> thread[t].pre.allocation_count,
             deallocation_count |-> thread[t].pre.deallocation_count,
             ub |-> {}, log |-> <<>>, thrown |-> "none", result |-> <<>>,
             input |-> NoInput ]
      w == thread[t].self
      other == thread[t].other
  IN IF thread[t].op = "move_assign" THEN move_assign(S, w, other)
     ELSE IF thread[t].op = "swap" THEN swap(S, w, other)
     ELSE operator_call(S, w, FALSE, "none", PlainCall.arg, PlainCall.void_R,
                        PlainCall.outcome)

\* a call that had the wrappers to itself from beginning to end has left what
\* the member function leaves when it runs as a whole
AloneAsWhole ==
  \A t \in Threads :
    (thread[t].op # "idle" /\ thread[t].alone /\ ~Busy(t)) =>
      /\ callable = AsWhole(t).callable
      /\ mem = AsWhole(t).mem
      /\ heap = AsWhole(t).heap
      /\ allocation_count = AsWhole(t).allocation_count
      /\ deallocation_count = AsWhole(t).deallocation_count
      /\ ub = AsWhole(t).ub

\* C35: as long as no caller has acted on a wrapper while another caller was
\* inside a member function of it, no member function has gone through a dead
\* or null handle, no payload has been destroyed twice, nothing was
\* constructed over a live object, whenever no call is in progress every
\* handle leads to a live payload owned by that wrapper alone and every
\* object and heap block has an owner, and a call that ran alone has left
\* what the member function leaves when it runs as a whole.
C35_SafeWhenOneAtATime ==
  /\ ~interleaved =>
       /\ ~UsedDeadObject
       /\ ~DestroyedTwice
       /\ ub = {}
       /\ ~OwnershipBroken
  /\ AloneAsWhole

\* a caller's operator() has loaded the handle of a wrapper, another caller's
\* move assignment has destroyed or relocated the payload in the meantime,
\* and the call has gone through the handle to the object that is no more
C35_Witness ==
  /\ interleaved
  /\ \E t \in Threads, u \in Threads :
       /\ thread[t].op = "invoke"
       /\ thread[t].rest = <<>>
       /\ ~LiveAt(Now, thread[t].p)
       /\ thread[u].op = "move_assign"
       /\ thread[t].self \in {thread[u].self, thread[u].other}
  /\ "dangling_call" \in ub

====
